---- MODULE Spec2Model ----
(***************************************************************************)
(* State-machine model of SearchBehaviorAnalysisCollector (src/tracker.js):*)
(* the event queue and the metric queue with their swap / transmit /       *)
(* requeue delivery, the two interval timers and the persisted session.    *)
(*                                                                         *)
(* JavaScript runs the collector on one thread: every handler below is one *)
(* atomic action up to its first await.  The part of an async send after   *)
(* `await fetch(...)` is a separate action (Settle...) that the event loop *)
(* runs once the request has an outcome.  A fetch that throws at once is   *)
(* the outcome "reject" settled before anything else runs.                 *)
(*                                                                         *)
(* Time is counted in units of 30000 ms.  Clock readings are kept relative *)
(* to a sliding origin: the clock always reads Horizon, and the passage of *)
(* one unit (Tick) lowers every recorded time by one.  A recorded          *)
(* timestamp is not lowered below 0; its age is then Horizon, which is at  *)
(* least every sessionTimeout, so both expiry comparisons of the code read *)
(* the same as with an unbounded clock.                                    *)
(*                                                                         *)
(* The browser's session history, the collector's currentPath and snapshot *)
(* and the PerformanceObserver objects it creates model navigation and the *)
(* performance monitor.  What the browser decides in a call (whether       *)
(* navigator.sendBeacon or PerformanceObserver exists, what a beacon or a  *)
(* fetch ends in) is an input of the action that makes the call.           *)
(***************************************************************************)
EXTENDS Integers, Sequences, FiniteSets, TLC

\* ------------------------------------------------------------------ bounds
MaxEvents == 3          \* events tracked in one run
MaxMetrics == 2         \* metrics tracked in one run
MaxInflight == 2        \* fetch requests awaiting their outcome, per queue
MaxFailures == 2        \* transport attempts that fail in one run
MaxBatchSize == 3       \* largest config.batchSize
MaxSendInterval == 2    \* largest config.sendInterval
MaxSessionTimeout == 3  \* largest config.sessionTimeout
MaxUUIDs == 2           \* session ids generated in one run
MaxSetups == 3          \* setupPerformanceObserver invocations in one run
MaxHistory == 3         \* entries of the browser's session history
MaxElements == 3        \* elements of the document at a click
MaxCollectors == 3      \* collectors constructed on one page
MaxClicks == 2          \* clicks the listener tracks in one run
MaxEntries == 2         \* entries one layout-shift callback delivers
MaxShift == 2           \* largest value of a layout shift, in units of 0.05

BatchSizes == 2..MaxBatchSize
SendIntervals == 2..MaxSendInterval
SessionTimeouts == MaxSessionTimeout..MaxSessionTimeout

\* setInterval(() => this.checkSessionExpiration(), 60000)
SessionCheckInterval == 2

\* the oldest age a recorded timestamp is followed to: a session can reach
\* sessionTimeout plus one check interval before a sweep is overdue
Horizon == MaxSessionTimeout + SessionCheckInterval

\* ------------------------------------------------------------- JS values
\* null / undefined / '' : the falsy values a storage read, an attribute read
\* or an option can be
NULL == <<>>

Truthy(v) == v # NULL

\* identifiers are strings; the model tags them by where they come from
StoredId == <<"stored", 1>>
InjectedId == <<"injected", 1>>
UUID(n) == <<"uuid", n>>

\* new Date().getTime()
DateNow == Horizon

\* new Date(t).toISOString(): the time as text
ToISOString(t) == <<t>>

\* new Date(text).getTime()
ParseDate(s) == s[1]

KeyId == "tracker_session_id"
KeyTs == "tracker_session_timestamp"
KeyColor == "colorschema_identifier"
Keys == {KeyId, KeyTs, KeyColor}

getItem(ls, k) == ls[k]

setItem(ls, k, v) == [ls EXCEPT ![k] = v]

removeItem(ls, k) == [ls EXCEPT ![k] = NULL]

VARIABLES
  constructed,         \* has `new SearchBehaviorAnalysisCollector(config)` run
  destroyed,           \* has destroy() run
  config,              \* the options of the page, as this.config reads them
  localStorage,        \* window.localStorage, by key
  sessionId,           \* this.sessionId
  uuidCount,           \* session ids generated so far
  events,              \* this.events
  performanceMetrics,  \* this.performanceMetrics
  inflight,            \* sendEvents calls suspended at `await fetch`, by their request
  metricsInflight,     \* sendPerformanceMetrics calls suspended at `await fetch`
  nextSessionFire,     \* due times of this._sessionInterval: one when set, none when cleared
  nextBatchFire,       \* due times of this._batchInterval: one when set, none when cleared
  nextEventId,         \* identity of the next event object
  nextMetricId,        \* identity of the next metric object
  failures,            \* failed transport attempts so far
  logged,              \* console.error calls so far
  escaped,             \* has an error left a handler: a throw or a rejected promise
  delivered,           \* events received by the ingestion endpoint
  deliveredMetrics,    \* metrics received by the metrics endpoint
  history,             \* the browser's session history: its entries and the current one
  currentPath,         \* this.currentPath
  browserInfo,         \* this.browserInfo: none before construction, else one snapshot
  created,             \* every PerformanceObserver object created so far
  observers,           \* this._observers: none when undefined, else one array
  listeners,           \* the event types the collector has a listener registered for
  historyPushState,    \* the function history.pushState is
  historyReplaceState, \* the function history.replaceState is
  colorIdentifier,     \* this.colorIdentifier
  collectors,          \* what each collector of the page has installed on it
  pageHistory,         \* the functions history.pushState and history.replaceState are
  reacted              \* the collectors whose handlePathChange the last history call ran

\* the state of the queues, the timers and the session
coreVars == <<constructed, destroyed, config, localStorage, sessionId, uuidCount, events,
              performanceMetrics, inflight, metricsInflight, nextSessionFire,
              nextBatchFire, nextEventId, nextMetricId, failures, logged, escaped,
              delivered, deliveredMetrics>>

\* the state of navigation, of the performance monitor and of what the
\* constructor installs on the page
navVars == <<history, currentPath, browserInfo, created, observers, listeners,
             historyPushState, historyReplaceState, colorIdentifier, collectors,
             pageHistory, reacted>>

vars == <<coreVars, navVars>>

\* ------------------------------------------------------------ helpers
RemoveAt(s, i) == [j \in 1..(Len(s) - 1) |-> IF j < i THEN s[j] ELSE s[j + 1]]

\* crypto.randomUUID(): an identifier that was never returned before
generateUUID == UUID(uuidCount + 1)

\* ------------------------------------------------------------ session
\* mutant: the expiry comparison is <= instead of <
getOrCreateSessionIdInclusive(cfg, ls, uuid) ==
  IF Truthy(cfg.sessionId)
  THEN [ret |-> cfg.sessionId,
        ls |-> setItem(setItem(ls, KeyId, cfg.sessionId), KeyTs, ToISOString(DateNow))]
  ELSE IF /\ Truthy(getItem(ls, KeyId))
          /\ Truthy(getItem(ls, KeyTs))
          /\ DateNow - ParseDate(getItem(ls, KeyTs)) <= cfg.sessionTimeout
       THEN [ret |-> getItem(ls, KeyId), ls |-> ls]
       ELSE [ret |-> uuid,
             ls |-> setItem(setItem(ls, KeyId, uuid), KeyTs, ToISOString(DateNow))]

\* mutant: a stored session that has not expired is preferred to the injected id
getOrCreateSessionIdStoredFirst(cfg, ls, uuid) ==
  IF /\ Truthy(getItem(ls, KeyId))
     /\ Truthy(getItem(ls, KeyTs))
     /\ DateNow - ParseDate(getItem(ls, KeyTs)) < cfg.sessionTimeout
  THEN [ret |-> getItem(ls, KeyId), ls |-> ls]
  ELSE IF Truthy(cfg.sessionId)
       THEN [ret |-> cfg.sessionId,
             ls |-> setItem(setItem(ls, KeyId, cfg.sessionId), KeyTs, ToISOString(DateNow))]
       ELSE [ret |-> uuid,
             ls |-> setItem(setItem(ls, KeyId, uuid), KeyTs, ToISOString(DateNow))]

\* getOrCreateSessionId(): the session id it returns and the storage it leaves
getOrCreateSessionId(cfg, ls, uuid) ==
  IF Truthy(cfg.sessionId)
  THEN [ret |-> cfg.sessionId,
        ls |-> setItem(setItem(ls, KeyId, cfg.sessionId), KeyTs, ToISOString(DateNow))]
  ELSE LET storedId == getItem(ls, KeyId)
           sessionTimestamp == getItem(ls, KeyTs)
       IN IF /\ Truthy(storedId)
             /\ Truthy(sessionTimestamp)
             /\ DateNow - ParseDate(sessionTimestamp) < cfg.sessionTimeout
          THEN [ret |-> storedId, ls |-> ls]
          ELSE [ret |-> uuid,
                ls |-> setItem(setItem(ls, KeyId, uuid), KeyTs, ToISOString(DateNow))]

\* mutant: the session is removed from the storage and a new id is kept in
\* memory only
resetSessionRemovesOnly(cfg, ls, uuid) ==
  [ret |-> uuid, ls |-> removeItem(removeItem(ls, KeyId), KeyTs)]

\* mutant: the persisted session is not removed before the derivation
resetSessionKeepsStorage(cfg, ls, uuid) == getOrCreateSessionId(cfg, ls, uuid)

\* resetSession(): the session id it sets and the storage it leaves
resetSession(cfg, ls, uuid) ==
  getOrCreateSessionId(cfg, removeItem(removeItem(ls, KeyId), KeyTs), uuid)

\* mutant: the sweep resets only when the age exceeds the timeout
checkSessionExpirationStrict(cfg, ls, sid, uuid) ==
  IF /\ Truthy(getItem(ls, KeyTs))
     /\ DateNow - ParseDate(getItem(ls, KeyTs)) > cfg.sessionTimeout
  THEN resetSession(cfg, ls, uuid)
  ELSE [ret |-> sid, ls |-> ls]

\* mutant: the sweep resets whenever a timestamp is persisted
checkSessionExpirationAlways(cfg, ls, sid, uuid) ==
  IF Truthy(getItem(ls, KeyTs))
  THEN resetSession(cfg, ls, uuid)
  ELSE [ret |-> sid, ls |-> ls]

\* returns the session id and the storage after the sweep
checkSessionExpiration(cfg, ls, sid, uuid) ==
  LET sessionTimestamp == getItem(ls, KeyTs)
  IN IF /\ Truthy(sessionTimestamp)
        /\ DateNow - ParseDate(sessionTimestamp) >= cfg.sessionTimeout
     THEN resetSession(cfg, ls, uuid)
     ELSE [ret |-> sid, ls |-> ls]

\* ------------------------------------------------------------ queues
\* mutant: the live queue is not emptied
SwapQueueKeepsQueue(q) == [batch |-> q, queue |-> q]

\* mutant: only the oldest entry is taken as the batch
SwapQueueTakesHead(q) == [batch |-> <<Head(q)>>, queue |-> Tail(q)]

\* const eventsToSend = [...this.events]; this.events = [];
SwapQueue(q) == [batch |-> q, queue |-> <<>>]

\* mutant: the failed batch is put behind the arrivals
RequeueBehind(batch, q) == q \o batch

\* mutant: the failed batch is dropped
RequeueDrops(batch, q) == q

\* this.events = [...eventsToSend, ...this.events]
Requeue(batch, q) == batch \o q

\* the object handed to JSON.stringify in sendEvents
EventsPayload(batch, sid) == [events |-> batch, sessionId |-> sid]

\* the object handed to JSON.stringify in sendPerformanceMetrics
MetricsPayload(batch, sid) == [performanceMetrics |-> batch, sessionId |-> sid]

\* fetch(this.config.endpoint, {method, headers, body}) of sendEvents
EventsFetch(cfg, data) ==
  [url |-> cfg.endpoint,
   method |-> "POST",
   headers |-> ("Content-Type" :> "application/json"),
   body |-> data]

\* mutant: the metrics are posted to the events endpoint
MetricsFetchToEndpoint(cfg, data) ==
  [url |-> cfg.endpoint,
   method |-> "POST",
   headers |-> ("Content-Type" :> "application/json"),
   body |-> data]

\* fetch(this.config.metricsEndpoint, {method, headers, body}) of
\* sendPerformanceMetrics
MetricsFetch(cfg, data) ==
  [url |-> cfg.metricsEndpoint,
   method |-> "POST",
   headers |-> ("Content-Type" :> "application/json"),
   body |-> data]

\* navigator.sendBeacon(this.config.endpoint, new Blob([JSON.stringify(data)]))
EventsBeacon(cfg, data) == [url |-> cfg.endpoint, body |-> data]

IdsOf(s) == {s[i].id : i \in 1..Len(s)}

\* what the beacon transport can do with a call
BeaconResults == {"true", "false", "throw"}

\* what a fetch can end in: response.ok, !response.ok, rejection
FetchOutcomes == {"ok", "notok", "reject"}

IsFailure(o) == o \in {"false", "throw", "notok", "reject"}

\* the result of a call that sends nothing
NothingSent(q) ==
  [events |-> q, started |-> <<>>, beaconed |-> <<>>, got |-> {}, failed |-> FALSE,
   logged |-> 0, escaped |-> FALSE]

\* mutant: the catch block throws the error on to the caller
catchSendEventsRethrows(batch, q) ==
  [events |-> Requeue(batch, q), logged |-> 1, escaped |-> TRUE]

\* the catch block of sendEvents: console.error, then the batch is put back;
\* the block ends without a throw
catchSendEvents(batch, q) ==
  [events |-> Requeue(batch, q), logged |-> 1, escaped |-> FALSE]

\* the try statement of sendEvents once the transport has answered.  inTry: the
\* queue the try block leaves; thrown: the block ended in an error, thrown
\* by the transport or by the block itself.
trySendEvents(batch, inTry, thrown) ==
  IF thrown
  THEN catchSendEvents(batch, inTry)
  ELSE [events |-> inTry, logged |-> 0, escaped |-> FALSE]

\* mutant: the beacon transport is used whenever it exists
sendEventsBeaconWhenever(cfg, q, sid, useSendBeacon, hasBeacon, beacon) ==
  IF Len(q) = 0
  THEN NothingSent(q)
  ELSE LET sw == SwapQueue(q)
           data == EventsPayload(sw.batch, sid)
       IN IF hasBeacon
          THEN LET t == trySendEvents(sw.batch,
                                      IF beacon = "false"
                                      THEN Requeue(sw.batch, sw.queue)
                                      ELSE sw.queue,
                                      IsFailure(beacon))
               IN [events |-> t.events,
                   started |-> <<>>,
                   beaconed |-> <<EventsBeacon(cfg, data)>>,
                   got |-> IF beacon = "true" THEN IdsOf(sw.batch) ELSE {},
                   failed |-> IsFailure(beacon),
                   logged |-> t.logged,
                   escaped |-> t.escaped]
          ELSE [events |-> sw.queue,
                started |-> <<EventsFetch(cfg, data)>>,
                beaconed |-> <<>>,
                got |-> {},
                failed |-> FALSE,
                logged |-> 0,
                escaped |-> FALSE]

\* mutant: an empty queue is sent like any other
sendEventsSendsEmpty(cfg, q, sid, useSendBeacon, hasBeacon, beacon) ==
  LET sw == SwapQueue(q)
      data == EventsPayload(sw.batch, sid)
  IN IF useSendBeacon /\ hasBeacon
     THEN LET t == trySendEvents(sw.batch,
                                 IF beacon = "false"
                                 THEN Requeue(sw.batch, sw.queue)
                                 ELSE sw.queue,
                                 IsFailure(beacon))
          IN [events |-> t.events,
              started |-> <<>>,
              beaconed |-> <<EventsBeacon(cfg, data)>>,
              got |-> IF beacon = "true" THEN IdsOf(sw.batch) ELSE {},
              failed |-> IsFailure(beacon),
              logged |-> t.logged,
              escaped |-> t.escaped]
     ELSE [events |-> sw.queue,
           started |-> <<EventsFetch(cfg, data)>>,
           beaconed |-> <<>>,
           got |-> {},
           failed |-> FALSE,
           logged |-> 0,
           escaped |-> FALSE]

\* sendEvents(useSendBeacon) up to its first await, on queue q.
\* hasBeacon: navigator.sendBeacon exists; beacon: what it does if called.
\* started: the fetch the call is suspended at; beaconed: the beacon call made.
sendEvents(cfg, q, sid, useSendBeacon, hasBeacon, beacon) ==
  IF Len(q) = 0
  THEN NothingSent(q)
  ELSE LET sw == SwapQueue(q)
           data == EventsPayload(sw.batch, sid)
       IN IF useSendBeacon /\ hasBeacon
          THEN LET t == trySendEvents(sw.batch,
                                      IF beacon = "false"
                                      THEN Requeue(sw.batch, sw.queue)
                                      ELSE sw.queue,
                                      IsFailure(beacon))
               IN [events |-> t.events,
                   started |-> <<>>,
                   beaconed |-> <<EventsBeacon(cfg, data)>>,
                   got |-> IF beacon = "true" THEN IdsOf(sw.batch) ELSE {},
                   failed |-> IsFailure(beacon),
                   logged |-> t.logged,
                   escaped |-> t.escaped]
          ELSE [events |-> sw.queue,
                started |-> <<EventsFetch(cfg, data)>>,
                beaconed |-> <<>>,
                got |-> {},
                failed |-> FALSE,
                logged |-> 0,
                escaped |-> FALSE]

\* the listener of beforeunload on queue q
beforeunloadListener(cfg, q, sid, hasBeacon, beacon) ==
  sendEvents(cfg, q, sid, TRUE, hasBeacon, beacon)

\* mutant: the flush waits until the queue is longer than batchSize
trackFlushesLate(cfg, q, e, sid, hasBeacon, beacon) ==
  IF Len(Append(q, e)) > cfg.batchSize
  THEN sendEvents(cfg, Append(q, e), sid, FALSE, hasBeacon, beacon)
  ELSE NothingSent(Append(q, e))

\* the body shared by trackEvent and trackClick on queue q: push e, then
\* flush when the queue has reached batchSize
track(cfg, q, e, sid, hasBeacon, beacon) ==
  LET pushed == Append(q, e)
  IN IF Len(pushed) >= cfg.batchSize
     THEN sendEvents(cfg, pushed, sid, FALSE, hasBeacon, beacon)
     ELSE NothingSent(pushed)

\* the event object trackEvent(eventName, eventData) pushes
CustomEvent(id, eventName, sid) ==
  [id |-> id, type |-> "custom_event", name |-> eventName, sessionId |-> sid]

\* the event object trackClick(clickData) pushes: {type: 'click',
\* ...clickData, sessionId}, a later key overriding an earlier one
ClickEvent(id, clickData, sid) ==
  [id |-> id, sessionId |-> sid] @@ clickData @@ [type |-> "click"]

trackEvent(cfg, q, id, eventName, sid, hasBeacon, beacon) ==
  track(cfg, q, CustomEvent(id, eventName, sid), sid, hasBeacon, beacon)

trackClick(cfg, q, id, clickData, sid, hasBeacon, beacon) ==
  track(cfg, q, ClickEvent(id, clickData, sid), sid, hasBeacon, beacon)

\* mutant: the timer leaves a single queued event waiting
batchIntervalCallbackSkipsOne(cfg, q, sid, hasBeacon, beacon) ==
  IF Len(q) > 1
  THEN sendEvents(cfg, q, sid, FALSE, hasBeacon, beacon)
  ELSE NothingSent(q)

\* the callback of this._batchInterval on queue q
batchIntervalCallback(cfg, q, sid, hasBeacon, beacon) ==
  IF Len(q) > 0
  THEN sendEvents(cfg, q, sid, FALSE, hasBeacon, beacon)
  ELSE NothingSent(q)

\* mutant: a response that is not ok throws without putting the batch back
settleEventsThrowsOnly(q, data, outcome) ==
  trySendEvents(data.events, q, IsFailure(outcome))

\* the rest of sendEvents once the awaited fetch has its outcome: a response
\* that is not ok puts the batch back and throws inside the try block
settleEvents(q, data, outcome) ==
  trySendEvents(data.events,
                IF outcome = "notok" THEN Requeue(data.events, q) ELSE q,
                IsFailure(outcome))

\* sendPerformanceMetrics() up to its first await, on queue q
sendPerformanceMetrics(cfg, q, sid) ==
  IF Len(q) = 0
  THEN [performanceMetrics |-> q, started |-> <<>>]
  ELSE LET sw == SwapQueue(q)
           data == MetricsPayload(sw.batch, sid)
       IN [performanceMetrics |-> sw.queue, started |-> <<MetricsFetch(cfg, data)>>]

\* the catch block of sendPerformanceMetrics
catchSendPerformanceMetrics(batch, q) ==
  [performanceMetrics |-> Requeue(batch, q), logged |-> 1, escaped |-> FALSE]

\* the try statement of sendPerformanceMetrics once the fetch has answered
trySendPerformanceMetrics(batch, inTry, thrown) ==
  IF thrown
  THEN catchSendPerformanceMetrics(batch, inTry)
  ELSE [performanceMetrics |-> inTry, logged |-> 0, escaped |-> FALSE]

\* mutant: a response that is not ok throws without putting the batch back
settleMetricsThrowsOnly(q, data, outcome) ==
  trySendPerformanceMetrics(data.performanceMetrics, q, IsFailure(outcome))

\* the rest of sendPerformanceMetrics once the awaited fetch has its outcome
settleMetrics(q, data, outcome) ==
  trySendPerformanceMetrics(data.performanceMetrics,
                            IF outcome = "notok"
                            THEN Requeue(data.performanceMetrics, q)
                            ELSE q,
                            IsFailure(outcome))

\* the metric object trackPerformanceMetric(metricData) pushes
Metric(id, type, sid) == [id |-> id, type |-> type, sessionId |-> sid]

\* mutant: a metric waits in the queue until a second one arrives
trackPerformanceMetricBatches(cfg, q, metric, sid) ==
  IF Len(Append(q, metric)) >= 2
  THEN sendPerformanceMetrics(cfg, Append(q, metric), sid)
  ELSE [performanceMetrics |-> Append(q, metric), started |-> <<>>]

\* trackPerformanceMetric(metricData) on queue q
trackPerformanceMetric(cfg, q, metric, sid) ==
  sendPerformanceMetrics(cfg, Append(q, metric), sid)

\* mutant: the session is reset before the conversion event is queued
trackConversionResetsFirst(cfg, ls, q, id, sid, uuid, hasBeacon, beacon) ==
  LET r == resetSession(cfg, ls, uuid)
  IN [send |-> trackEvent(cfg, q, id, "conversion", r.ret, hasBeacon, beacon),
      session |-> r]

\* trackConversion(conversionData): what trackEvent('conversion', ...) does to
\* the queue under the session id in force, and what resetSession() leaves
trackConversion(cfg, ls, q, id, sid, uuid, hasBeacon, beacon) ==
  [send |-> trackEvent(cfg, q, id, "conversion", sid, hasBeacon, beacon),
   session |-> resetSession(cfg, ls, uuid)]

\* ------------------------------------------------------------ monitor
\* the entry types observed, in the order the observers are created
EntryTypes ==
  <<"largest-contentful-paint", "paint", "first-input", "layout-shift", "resource">>

\* new PerformanceObserver(callback) after observe({entryTypes: [t]})
Observer(t) == [entryType |-> t, connected |-> TRUE]

\* the members of this._observers, as positions in cr
Members(obs) == UNION {{s[j] : j \in 1..Len(s)} : s \in obs}

\* this._observers.forEach(observer => observer.disconnect())
Disconnect(cr, obs) ==
  [i \in 1..Len(cr) |->
     IF \E s \in obs : \E j \in 1..Len(s) : s[j] = i
     THEN [cr[i] EXCEPT !.connected = FALSE]
     ELSE cr[i]]

\* the part of the collector that navigation and the monitor read and write
Self ==
  [currentPath |-> currentPath,
   browserInfo |-> browserInfo,
   created |-> created,
   observers |-> observers,
   performanceMetrics |-> performanceMetrics,
   nextMetricId |-> nextMetricId,
   sessionId |-> sessionId,
   started |-> <<>>]

\* mutant: the observers of the earlier invocation stay connected
setupPerformanceObserverKeepsOld(cfg, c, hasPerformanceObserver, navigationEntry) ==
  IF hasPerformanceObserver
  THEN LET first == Len(c.created) + 1
           cr == c.created \o [k \in 1..Len(EntryTypes) |-> Observer(EntryTypes[k])]
           m == IF navigationEntry
                THEN trackPerformanceMetric(cfg, c.performanceMetrics,
                       Metric(c.nextMetricId, "NAVIGATION", c.sessionId), c.sessionId)
                ELSE [performanceMetrics |-> c.performanceMetrics, started |-> <<>>]
       IN [c EXCEPT !.created = cr,
                    !.observers = {[k \in 1..Len(EntryTypes) |-> first + k - 1]},
                    !.performanceMetrics = m.performanceMetrics,
                    !.started = m.started,
                    !.nextMetricId = IF navigationEntry THEN @ + 1 ELSE @]
  ELSE [c EXCEPT !.observers = {<<>>}]

\* setupPerformanceObserver() on the collector c.  hasPerformanceObserver:
\* 'PerformanceObserver' in window; navigationEntry: the browser has a
\* navigation timing entry.
setupPerformanceObserver(cfg, c, hasPerformanceObserver, navigationEntry) ==
  LET old == Disconnect(c.created, c.observers)
  IN IF hasPerformanceObserver
     THEN LET first == Len(old) + 1
              cr == old \o [k \in 1..Len(EntryTypes) |-> Observer(EntryTypes[k])]
              m == IF navigationEntry
                   THEN trackPerformanceMetric(cfg, c.performanceMetrics,
                          Metric(c.nextMetricId, "NAVIGATION", c.sessionId), c.sessionId)
                   ELSE [performanceMetrics |-> c.performanceMetrics, started |-> <<>>]
          IN [c EXCEPT !.created = cr,
                       !.observers = {[k \in 1..Len(EntryTypes) |-> first + k - 1]},
                       !.performanceMetrics = m.performanceMetrics,
                       !.started = m.started,
                       !.nextMetricId = IF navigationEntry THEN @ + 1 ELSE @]
     ELSE [c EXCEPT !.created = old, !.observers = {<<>>}]

\* ------------------------------------------------------------ navigation
\* the paths of the site
Paths == {"/", "/search"}

\* the state objects a page passes to pushState / replaceState
HistoryStates == {NULL, <<"state">>}

\* the arguments (state, title, url) of pushState / replaceState; the title
\* is ignored by browsers
HistoryArgs == [state : HistoryStates, url : Paths]

\* window.location.pathname
Pathname(h) == h.entries[h.index].url

\* the browser's own history.pushState: the entries after the current one are
\* dropped and the new entry becomes the current one
originalPushState(h, args) ==
  [entries |-> Append(SubSeq(h.entries, 1, h.index), args), index |-> h.index + 1]

\* the browser's own history.replaceState: the current entry is replaced
originalReplaceState(h, args) == [h EXCEPT !.entries[h.index] = args]

\* getBrowserInfo(): the snapshot, of which the model keeps the path
getBrowserInfo(h) == [path |-> Pathname(h)]

\* mutant: the reaction does not compare the path with currentPath
handlePathChangeAlways(cfg, c, h, hasPerformanceObserver, navigationEntry) ==
  LET moved == [c EXCEPT !.currentPath = Pathname(h),
                         !.browserInfo = {getBrowserInfo(h)}]
  IN IF cfg.performanceMetricsEnabled
     THEN setupPerformanceObserver(cfg, moved, hasPerformanceObserver, navigationEntry)
     ELSE moved

\* handlePathChange() on the collector c with the browser at history h
handlePathChange(cfg, c, h, hasPerformanceObserver, navigationEntry) ==
  LET newPath == Pathname(h)
  IN IF newPath # c.currentPath
     THEN LET moved == [c EXCEPT !.currentPath = newPath,
                                 !.browserInfo = {getBrowserInfo(h)}]
          IN IF cfg.performanceMetricsEnabled
             THEN setupPerformanceObserver(cfg, moved, hasPerformanceObserver,
                                           navigationEntry)
             ELSE moved
     ELSE c

\* mutant: the wrapper reacts before it calls the original method
pushStateReactsFirst(cfg, c, h, args, hasPerformanceObserver, navigationEntry) ==
  [history |-> originalPushState(h, args),
   self |-> handlePathChange(cfg, c, h, hasPerformanceObserver, navigationEntry)]

\* the wrapper the collector installs as history.pushState
pushState(cfg, c, h, args, hasPerformanceObserver, navigationEntry) ==
  LET after == originalPushState(h, args)
  IN [history |-> after,
      self |-> handlePathChange(cfg, c, after, hasPerformanceObserver, navigationEntry)]

\* the wrapper the collector installs as history.replaceState
replaceState(cfg, c, h, args, hasPerformanceObserver, navigationEntry) ==
  LET after == originalReplaceState(h, args)
  IN [history |-> after,
      self |-> handlePathChange(cfg, c, after, hasPerformanceObserver, navigationEntry)]

\* the listener of popstate, which the browser calls after it has moved to
\* the entry at position i
popstateListener(cfg, c, h, hasPerformanceObserver, navigationEntry) ==
  handlePathChange(cfg, c, h, hasPerformanceObserver, navigationEntry)

\* ------------------------------------------------------------ document
\* the values of an element's data-item-id attribute
ItemIds == {NULL, <<"item">>}

\* the values of an element's data-search-request-id attribute
AttributeSearchRequestIds == {NULL, <<"search", 1>>}

\* the values a page passes as config.searchRequestId or to updateSearchRequestId
PageSearchRequestIds == {NULL, <<"search", 2>>, <<"search", 3>>}

\* the elements of a document: whether the element matches config.selector,
\* its two attributes, and its parent as a position in the document (0: none).
\* The attributes of an element that does not match are never read.
Elements ==
  [matches : {TRUE}, itemId : ItemIds, searchRequestId : AttributeSearchRequestIds,
   parent : 0..(MaxElements - 1)]
    \cup [matches : {FALSE}, itemId : {NULL}, searchRequestId : {NULL},
          parent : 0..(MaxElements - 1)]

\* is j the element i or one of its ancestors
RECURSIVE IsSelfOrAncestor(_, _, _)
IsSelfOrAncestor(doc, j, i) ==
  IF i = 0 THEN FALSE
  ELSE IF i = j THEN TRUE
  ELSE IsSelfOrAncestor(doc, j, doc[i].parent)

\* the documents: the elements in document order, every element after its
\* parent and right after the last descendant of its elder siblings
Documents ==
  UNION {{doc \in [1..n -> Elements] :
            \A i \in 1..n :
              /\ doc[i].parent < i
              /\ doc[i].parent # 0 =>
                   \A j \in (doc[i].parent + 1)..(i - 1) :
                     IsSelfOrAncestor(doc, doc[i].parent, j)} :
         n \in 1..MaxElements}

\* element.closest(selector): the nearest of the element and its ancestors
\* that matches, or 0 for null
RECURSIVE closest(_, _)
closest(doc, i) ==
  IF i = 0 THEN 0
  ELSE IF doc[i].matches THEN i
  ELSE closest(doc, doc[i].parent)

\* document.querySelectorAll(selector): the matching elements in document order
querySelectorAll(doc) ==
  SelectSeq([i \in 1..Len(doc) |-> i], LAMBDA i : doc[i].matches)

\* Array.prototype.indexOf, counting from 0; -1 when x is not in the array
indexOf(array, x) ==
  IF \E k \in 1..Len(array) : array[k] = x
  THEN (CHOOSE k \in 1..Len(array) : array[k] = x /\ \A m \in 1..(k - 1) : array[m] # x) - 1
  ELSE -1

\* mutant: the position counts from 0
readTargetFromZero(doc, i) ==
  LET target == closest(doc, i)
  IN IF target # 0 /\ Truthy(doc[target].itemId)
     THEN {[itemId |-> doc[target].itemId,
            position |-> indexOf(querySelectorAll(doc), target),
            attribute |-> doc[target].searchRequestId]}
     ELSE {}

\* what the click listener reads from the document for a click on element i:
\* nothing when no element matches or the match has no item id, else the
\* item id, the position and the search-request-id attribute of the match
readTarget(doc, i) ==
  LET target == closest(doc, i)
  IN IF target # 0
     THEN LET itemId == doc[target].itemId
          IN IF Truthy(itemId)
             THEN LET allElements == querySelectorAll(doc)
                      position == indexOf(allElements, target) + 1
                  IN {[itemId |-> itemId, position |-> position,
                       attribute |-> doc[target].searchRequestId]}
             ELSE {}
     ELSE {}

\* what the listener can read from a click on a document
TargetReadings == UNION {{readTarget(doc, i) : i \in 1..Len(doc)} : doc \in Documents}

\* mutant: config.searchRequestId is preferred to the element's attribute
clickListenerConfigFirst(cfg, q, id, reading, sid, hasBeacon, beacon) ==
  IF reading = {}
  THEN NothingSent(q)
  ELSE LET t == CHOOSE t \in reading : TRUE
       IN trackClick(cfg, q, id,
                     [itemId |-> t.itemId, position |-> t.position,
                      searchRequestId |-> IF Truthy(cfg.searchRequestId)
                                          THEN cfg.searchRequestId
                                          ELSE t.attribute],
                     sid, hasBeacon, beacon)

\* the listener of click, given what it reads from the document
clickListener(cfg, q, id, reading, sid, hasBeacon, beacon) ==
  IF reading = {}
  THEN NothingSent(q)
  ELSE LET t == CHOOSE t \in reading : TRUE
           searchRequestId == IF Truthy(t.attribute)
                              THEN t.attribute
                              ELSE cfg.searchRequestId
       IN trackClick(cfg, q, id,
                     [itemId |-> t.itemId, position |-> t.position,
                      searchRequestId |-> searchRequestId],
                     sid, hasBeacon, beacon)

\* the listener of visibilitychange
visibilityListener(cfg, q, id, sid, hasBeacon, beacon) ==
  trackEvent(cfg, q, id, "visibility_change", sid, hasBeacon, beacon)

\* updateSearchRequestId(searchRequestId)
updateSearchRequestId(cfg, searchRequestId) ==
  [cfg EXCEPT !.searchRequestId = searchRequestId]

\* ------------------------------------------------------------ layout shifts
\* entry.value of a layout shift, in units of 0.05
ShiftValues == 1..MaxShift

\* the entries one call of the layout-shift observer's callback can deliver
LayoutShiftEntries ==
  UNION {[1..n -> [value : ShiftValues, hadRecentInput : BOOLEAN]] : n \in 1..MaxEntries}

\* mutant: every entry is added, whatever its hadRecentInput
clsValueOfAll(entries) ==
  LET Sum[n \in 0..Len(entries)] == IF n = 0 THEN 0 ELSE Sum[n - 1] + entries[n].value
  IN Sum[Len(entries)]

\* clsValue after entries.forEach(...) of the layout-shift callback
clsValue(entries) ==
  LET Sum[n \in 0..Len(entries)] ==
        IF n = 0 THEN 0
        ELSE IF ~entries[n].hadRecentInput
             THEN Sum[n - 1] + entries[n].value
             ELSE Sum[n - 1]
  IN Sum[Len(entries)]

\* the metric object the layout-shift callback hands to trackPerformanceMetric
ClsMetric(id, value, sid) ==
  [id |-> id, type |-> "CLS", value |-> value, sessionId |-> sid]

\* the callback of the layout-shift observer on the metric queue q
layoutShiftCallback(cfg, q, id, entries, sid) ==
  trackPerformanceMetric(cfg, q, ClsMetric(id, clsValue(entries), sid), sid)

\* ------------------------------------------------------------ identifier
\* generateRandomColor(): the n-th draw of the random source; the draws of
\* earlier visits have n <= 0
generateRandomColor(n) == <<"#", n>>

\* `${color1}-${color2}`
ColorPair(color1, color2) == <<color1, color2>>

\* an identifier an earlier visit has persisted
StoredColor == ColorPair(generateRandomColor(-1), generateRandomColor(0))

\* mutant: a new identifier is generated and persisted at every construction
getOrCreateColorIdentifierAlways(ls, color1, color2) ==
  [ret |-> ColorPair(color1, color2),
   ls |-> setItem(ls, KeyColor, ColorPair(color1, color2))]

\* getOrCreateColorIdentifier(): the identifier it returns and the storage it leaves
getOrCreateColorIdentifier(ls, color1, color2) ==
  LET stored == getItem(ls, KeyColor)
  IN IF ~Truthy(stored)
     THEN [ret |-> ColorPair(color1, color2),
           ls |-> setItem(ls, KeyColor, ColorPair(color1, color2))]
     ELSE [ret |-> stored, ls |-> ls]

\* ------------------------------------------------------------ installation
\* the event types setupEventListeners registers a listener for
ListenerTypes == {"click", "visibilitychange", "popstate", "beforeunload"}

\* the functions history.pushState / history.replaceState can be: the one in
\* place when the collector is constructed, or the collector's wrapper
Original == "original"
Wrapper == "wrapper"

\* what the constructor installs on the page and destroy() takes away
Installation ==
  [nextSessionFire |-> nextSessionFire,
   nextBatchFire |-> nextBatchFire,
   created |-> created,
   observers |-> observers,
   listeners |-> listeners,
   historyPushState |-> historyPushState,
   historyReplaceState |-> historyReplaceState,
   events |-> events]

\* setupEventListeners() on the installation c
setupEventListeners(c) ==
  [c EXCEPT !.listeners = @ \cup ListenerTypes,
            !.historyPushState = Wrapper,
            !.historyReplaceState = Wrapper]

\* mutant: the click listener stays registered
destroyKeepsClickListener(c) ==
  [c EXCEPT !.nextSessionFire = {},
            !.nextBatchFire = {},
            !.created = Disconnect(c.created, c.observers),
            !.listeners = @ \ (ListenerTypes \ {"click"}),
            !.historyPushState = Original,
            !.historyReplaceState = Original]

\* mutant: destroy() also empties the event queue
destroyDropsQueue(c) ==
  [c EXCEPT !.nextSessionFire = {},
            !.nextBatchFire = {},
            !.created = Disconnect(c.created, c.observers),
            !.listeners = @ \ ListenerTypes,
            !.historyPushState = Original,
            !.historyReplaceState = Original,
            !.events = <<>>]

\* destroy() on the installation c; the queue is among what it leaves alone
destroy(c) ==
  [c EXCEPT !.nextSessionFire = {},
            !.nextBatchFire = {},
            !.created = Disconnect(c.created, c.observers),
            !.listeners = @ \ ListenerTypes,
            !.historyPushState = Original,
            !.historyReplaceState = Original]

\* ------------------------------------------------------------ page
\* Several collectors on one page, each reduced to what its constructor
\* installs on the page and its destroy() takes away.

\* the function the browser provides as history.pushState / replaceState
NativeFunction == <<"native">>

\* the wrapper that the constructor of collector k binds to it
WrapperOf(k) == <<"wrapper", k>>

\* a collector nobody has constructed
NoCollector ==
  [phase |-> "none",
   listeners |-> {},
   connected |-> {},
   intervals |-> FALSE,
   originalPushState |-> NULL,
   originalReplaceState |-> NULL]

\* the page as the collectors see it
Page == [collectors |-> collectors, history |-> pageHistory]

\* where a constructor can throw: nowhere, at a storage access, or at the
\* creation of the n-th performance observer
ConstructorFailures ==
  {<<"none", 0>>, <<"storage", 0>>} \cup {<<"observer", n>> : n \in 1..Len(EntryTypes)}

\* setupEventListeners() of collector k: four listeners, and the two history
\* functions in place are kept and replaced with wrappers
setupEventListenersOn(pg, k) ==
  [pg EXCEPT !.collectors[k].listeners = ListenerTypes,
             !.collectors[k].originalPushState = pg.history.pushState,
             !.collectors[k].originalReplaceState = pg.history.replaceState,
             !.history.pushState = WrapperOf(k),
             !.history.replaceState = WrapperOf(k)]

\* setupPerformanceObserver() of collector k when the creation of the n-th
\* observer throws (n = 0: none does): the observers before it are observing
setupPerformanceObserverOn(pg, k, n) ==
  [pg EXCEPT !.collectors[k].connected =
               {EntryTypes[i] : i \in 1..(IF n = 0 THEN Len(EntryTypes) ELSE n - 1)}]

\* new SearchBehaviorAnalysisCollector(config) as collector k, with the
\* failure f.  The storage is accessed before anything is installed; the
\* intervals are set after the monitor setup.
constructorOn(cfg, pg, k, f) ==
  IF f[1] = "storage"
  THEN [pg EXCEPT !.collectors[k].phase = "failed"]
  ELSE LET listening == setupEventListenersOn(pg, k)
       IN IF cfg.performanceMetricsEnabled
          THEN LET observing == setupPerformanceObserverOn(listening, k, f[2])
               IN IF f[1] = "observer"
                  THEN [observing EXCEPT !.collectors[k].phase = "failed"]
                  ELSE [observing EXCEPT !.collectors[k].phase = "constructed",
                                         !.collectors[k].intervals = TRUE]
          ELSE [listening EXCEPT !.collectors[k].phase = "constructed",
                                 !.collectors[k].intervals = TRUE]

\* destroy() of collector k
destroyOn(pg, k) ==
  [pg EXCEPT !.collectors[k].phase = "destroyed",
             !.collectors[k].intervals = FALSE,
             !.collectors[k].connected = {},
             !.collectors[k].listeners = {},
             !.history.pushState = IF Truthy(pg.collectors[k].originalPushState)
                                   THEN pg.collectors[k].originalPushState
                                   ELSE @,
             !.history.replaceState = IF Truthy(pg.collectors[k].originalReplaceState)
                                      THEN pg.collectors[k].originalReplaceState
                                      ELSE @]

\* the collectors whose handlePathChange a call of the function fn runs: a
\* wrapper calls the function its collector kept and then handlePathChange
RECURSIVE Reacting(_, _, _)
Reacting(pg, fn, method) ==
  IF fn = NativeFunction
  THEN {}
  ELSE LET k == fn[2]
           kept == IF method = "pushState"
                   THEN pg.collectors[k].originalPushState
                   ELSE pg.collectors[k].originalReplaceState
       IN {k} \cup Reacting(pg, kept, method)

\* ------------------------------------------------------------ initial state
\* config.bearerToken of a page that authenticates
BearerToken == <<"test-token">>

\* the options a page can pass to the constructor
Configs ==
  [endpoint : {"/api/track"},
   metricsEndpoint : {"/api/metrics"},
   batchSize : BatchSizes,
   sendInterval : SendIntervals,
   sessionTimeout : SessionTimeouts,
   sessionId : {NULL, InjectedId},
   performanceMetricsEnabled : BOOLEAN,
   bearerToken : {NULL, BearerToken},
   searchRequestId : {NULL, <<"search", 2>>}]

\* the pages that pass neither bearerToken nor searchRequestId
PlainConfigs == {c \in Configs : c.bearerToken = NULL /\ c.searchRequestId = NULL}

\* the clickData of the page's own trackClick calls
PageClickData == [itemId |-> <<"item">>]

\* what an earlier visit can have left in localStorage
Storages ==
  {(KeyId :> i) @@ (KeyTs :> t) @@ (KeyColor :> c) :
     i \in {NULL, StoredId},
     t \in {NULL} \cup {ToISOString(n) : n \in 0..DateNow},
     c \in {NULL, StoredColor}}

\* the session history of a page that has just been loaded
FreshHistory == [entries |-> <<[state |-> NULL, url |-> "/"]>>, index |-> 1]

\* this.currentPath before the constructor has set it
NoPath == ""

\* The page before `new SearchBehaviorAnalysisCollector(config)`, with the
\* options it will pass and the storage it starts from.
InitWith(cfgs, stores) ==
  /\ constructed = FALSE
  /\ destroyed = FALSE
  /\ config \in cfgs
  /\ localStorage \in stores
  /\ sessionId = NULL
  /\ uuidCount = 0
  /\ events = <<>>
  /\ performanceMetrics = <<>>
  /\ inflight = <<>>
  /\ metricsInflight = <<>>
  /\ nextSessionFire = {}
  /\ nextBatchFire = {}
  /\ nextEventId = 1
  /\ nextMetricId = 1
  /\ failures = 0
  /\ logged = 0
  /\ escaped = FALSE
  /\ delivered = {}
  /\ deliveredMetrics = {}
  /\ history = FreshHistory
  /\ currentPath = NoPath
  /\ browserInfo = {}
  /\ created = <<>>
  /\ observers = {}
  /\ listeners = {}
  /\ historyPushState = Original
  /\ historyReplaceState = Original
  /\ colorIdentifier = NULL
  /\ collectors = [k \in 1..MaxCollectors |-> NoCollector]
  /\ pageHistory = [pushState |-> NativeFunction, replaceState |-> NativeFunction]
  /\ reacted = {}

Init == InitWith(Configs, Storages)

\* ------------------------------------------------------------ actions
\* the effect of a sendEvents result r on the collector
ApplySendEvents(r) ==
  /\ events' = r.events
  /\ inflight' = inflight \o r.started
  /\ Len(inflight') <= MaxInflight
  /\ delivered' = delivered \cup r.got
  /\ failures' = failures + (IF r.failed THEN 1 ELSE 0)
  /\ failures' <= MaxFailures
  /\ logged' = logged + r.logged
  /\ escaped' = (escaped \/ r.escaped)

\* the effect of a sendPerformanceMetrics result r on the collector
ApplySendMetrics(r) ==
  /\ performanceMetrics' = r.performanceMetrics
  /\ metricsInflight' = metricsInflight \o r.started
  /\ Len(metricsInflight') <= MaxInflight

\* the effect of a session derivation r on the collector
ApplySession(r) ==
  /\ sessionId' = r.ret
  /\ localStorage' = r.ls
  /\ uuidCount' = uuidCount + (IF r.ret = generateUUID THEN 1 ELSE 0)
  /\ uuidCount' <= MaxUUIDs

\* the effect of a monitor setup or a path change, with result c, on the collector
ApplySelf(c) ==
  /\ currentPath' = c.currentPath
  /\ browserInfo' = c.browserInfo
  /\ created' = c.created
  /\ Len(created') <= MaxSetups * Len(EntryTypes)
  /\ observers' = c.observers
  /\ nextMetricId' = c.nextMetricId
  /\ nextMetricId' <= MaxMetrics + 1
  /\ ApplySendMetrics(c)

\* whether navigator.sendBeacon exists and what it does when it is called
BeaconCases == {<<FALSE, "true">>} \cup {<<TRUE, b>> : b \in BeaconResults}

\* new SearchBehaviorAnalysisCollector(config)
Construct ==
  /\ ~constructed
  /\ \E hasPerformanceObserver \in BOOLEAN, navigationEntry \in BOOLEAN :
       LET s == getOrCreateSessionId(config, localStorage, generateUUID)
           id == getOrCreateColorIdentifier(s.ls, generateRandomColor(1),
                                            generateRandomColor(2))
           c == [Self EXCEPT !.sessionId = s.ret,
                             !.browserInfo = {getBrowserInfo(history)},
                             !.currentPath = Pathname(history)]
           i == setupEventListeners(Installation)
       IN /\ ApplySession([s EXCEPT !.ls = id.ls])
          /\ colorIdentifier' = id.ret
          /\ events' = <<>>
          /\ listeners' = i.listeners
          /\ historyPushState' = i.historyPushState
          /\ historyReplaceState' = i.historyReplaceState
          /\ ApplySelf(IF config.performanceMetricsEnabled
                       THEN setupPerformanceObserver(config, c, hasPerformanceObserver,
                                                     navigationEntry)
                       ELSE c)
  /\ constructed' = TRUE
  /\ nextSessionFire' = {DateNow + SessionCheckInterval}
  /\ nextBatchFire' = {DateNow + config.sendInterval}
  /\ UNCHANGED <<destroyed, config, inflight, nextEventId, failures, logged, escaped,
                 delivered, deliveredMetrics, history, collectors, pageHistory, reacted>>

\* trackEvent(name, data) called by the page
TrackEvent ==
  /\ constructed
  /\ nextEventId <= MaxEvents
  /\ \E c \in BeaconCases :
       ApplySendEvents(trackEvent(config, events, nextEventId, "visibility_change",
                                  sessionId, c[1], c[2]))
  /\ nextEventId' = nextEventId + 1
  /\ UNCHANGED <<constructed, destroyed, config, localStorage, sessionId, uuidCount,
                 performanceMetrics, metricsInflight, nextSessionFire,
                 nextBatchFire, nextMetricId, deliveredMetrics, navVars>>

\* trackClick(clickData) called by the page
TrackClick ==
  /\ constructed
  /\ nextEventId <= MaxEvents
  /\ \E c \in BeaconCases :
       ApplySendEvents(trackClick(config, events, nextEventId, PageClickData, sessionId,
                                  c[1], c[2]))
  /\ nextEventId' = nextEventId + 1
  /\ UNCHANGED <<constructed, destroyed, config, localStorage, sessionId, uuidCount,
                 performanceMetrics, metricsInflight, nextSessionFire,
                 nextBatchFire, nextMetricId, deliveredMetrics, navVars>>

\* trackConversion(conversionData)
TrackConversion ==
  /\ constructed
  /\ nextEventId <= MaxEvents
  /\ \E c \in BeaconCases :
       LET r == trackConversion(config, localStorage, events, nextEventId, sessionId,
                                generateUUID, c[1], c[2])
       IN /\ ApplySendEvents(r.send)
          /\ ApplySession(r.session)
  /\ nextEventId' = nextEventId + 1
  /\ UNCHANGED <<constructed, destroyed, config, performanceMetrics, metricsInflight,
                 nextSessionFire, nextBatchFire, nextMetricId, deliveredMetrics,
                 navVars>>

\* resetSession() called by the page
ResetSession ==
  /\ constructed
  /\ ApplySession(resetSession(config, localStorage, generateUUID))
  /\ UNCHANGED <<constructed, destroyed, config, events, performanceMetrics,
                 inflight, metricsInflight, nextSessionFire, nextBatchFire,
                 nextEventId, nextMetricId, failures, logged, escaped, delivered, deliveredMetrics,
                 navVars>>

\* collector.sendEvents(useSendBeacon) called by the page
SendEvents ==
  /\ constructed
  /\ \E useSendBeacon \in BOOLEAN :
       \E c \in (IF useSendBeacon THEN BeaconCases ELSE {<<FALSE, "true">>}) :
         ApplySendEvents(sendEvents(config, events, sessionId, useSendBeacon, c[1], c[2]))
  /\ UNCHANGED <<constructed, destroyed, config, localStorage, sessionId, uuidCount,
                 performanceMetrics, metricsInflight, nextSessionFire,
                 nextBatchFire, nextEventId, nextMetricId, deliveredMetrics, navVars>>

\* beforeunload is fired while the collector's listener is registered
BeforeUnload ==
  /\ "beforeunload" \in listeners
  /\ \E c \in BeaconCases :
       ApplySendEvents(beforeunloadListener(config, events, sessionId, c[1], c[2]))
  /\ UNCHANGED <<constructed, destroyed, config, localStorage, sessionId, uuidCount,
                 performanceMetrics, metricsInflight, nextSessionFire,
                 nextBatchFire, nextEventId, nextMetricId, deliveredMetrics, navVars>>

\* this._batchInterval is due: its callback runs and the interval is re-armed
BatchTimer ==
  /\ DateNow \in nextBatchFire
  /\ \E c \in BeaconCases :
       ApplySendEvents(batchIntervalCallback(config, events, sessionId, c[1], c[2]))
  /\ nextBatchFire' = {DateNow + config.sendInterval}
  /\ UNCHANGED <<constructed, destroyed, config, localStorage, sessionId, uuidCount,
                 performanceMetrics, metricsInflight, nextSessionFire,
                 nextEventId, nextMetricId, deliveredMetrics, navVars>>

\* the awaited fetch of the i-th suspended sendEvents gets its outcome
SettleEvents ==
  \E i \in 1..Len(inflight), outcome \in FetchOutcomes :
    /\ LET r == settleEvents(events, inflight[i].body, outcome)
       IN /\ events' = r.events
          /\ logged' = logged + r.logged
          /\ escaped' = (escaped \/ r.escaped)
    /\ inflight' = RemoveAt(inflight, i)
    /\ delivered' = IF outcome = "ok"
                    THEN delivered \cup IdsOf(inflight[i].body.events)
                    ELSE delivered
    /\ failures' = failures + (IF IsFailure(outcome) THEN 1 ELSE 0)
    /\ failures' <= MaxFailures
    /\ UNCHANGED <<constructed, destroyed, config, localStorage, sessionId, uuidCount,
                   performanceMetrics, metricsInflight, nextSessionFire,
                   nextBatchFire, nextEventId, nextMetricId, deliveredMetrics, navVars>>

\* trackPerformanceMetric(metricData), from an observer callback or the page
TrackPerformanceMetric ==
  /\ constructed
  /\ nextMetricId <= MaxMetrics
  /\ \E type \in {"LCP"} :
       ApplySendMetrics(trackPerformanceMetric(config, performanceMetrics,
                          Metric(nextMetricId, type, sessionId), sessionId))
  /\ nextMetricId' = nextMetricId + 1
  /\ UNCHANGED <<constructed, destroyed, config, localStorage, sessionId, uuidCount,
                 events, inflight, nextSessionFire, nextBatchFire, nextEventId,
                 failures, logged, escaped, delivered, deliveredMetrics, navVars>>

\* collector.sendPerformanceMetrics() called by the page
SendPerformanceMetrics ==
  /\ constructed
  /\ ApplySendMetrics(sendPerformanceMetrics(config, performanceMetrics, sessionId))
  /\ UNCHANGED <<constructed, destroyed, config, localStorage, sessionId, uuidCount,
                 events, inflight, nextSessionFire, nextBatchFire, nextEventId,
                 nextMetricId, failures, logged, escaped, delivered, deliveredMetrics, navVars>>

\* the awaited fetch of the i-th suspended sendPerformanceMetrics gets its outcome
SettleMetrics ==
  \E i \in 1..Len(metricsInflight), outcome \in FetchOutcomes :
    /\ LET r == settleMetrics(performanceMetrics, metricsInflight[i].body, outcome)
       IN /\ performanceMetrics' = r.performanceMetrics
          /\ logged' = logged + r.logged
          /\ escaped' = (escaped \/ r.escaped)
    /\ metricsInflight' = RemoveAt(metricsInflight, i)
    /\ deliveredMetrics' =
         IF outcome = "ok"
         THEN deliveredMetrics \cup IdsOf(metricsInflight[i].body.performanceMetrics)
         ELSE deliveredMetrics
    /\ failures' = failures + (IF IsFailure(outcome) THEN 1 ELSE 0)
    /\ failures' <= MaxFailures
    /\ UNCHANGED <<constructed, destroyed, config, localStorage, sessionId, uuidCount,
                   events, inflight, nextSessionFire, nextBatchFire, nextEventId,
                   nextMetricId, delivered, navVars>>

\* this._sessionInterval is due: checkSessionExpiration runs, the interval is re-armed
SessionTimer ==
  /\ DateNow \in nextSessionFire
  /\ ApplySession(checkSessionExpiration(config, localStorage, sessionId, generateUUID))
  /\ nextSessionFire' = {DateNow + SessionCheckInterval}
  /\ UNCHANGED <<constructed, destroyed, config, events, performanceMetrics,
                 inflight, metricsInflight, nextBatchFire, nextEventId,
                 nextMetricId, failures, logged, escaped, delivered, deliveredMetrics, navVars>>

\* one unit of time passes; no interval is overdue
Tick ==
  /\ constructed
  /\ \A t \in nextSessionFire \cup nextBatchFire : t > DateNow
  /\ localStorage' =
       IF Truthy(localStorage[KeyTs])
       THEN [localStorage EXCEPT ![KeyTs] =
               ToISOString(IF ParseDate(@) > 0 THEN ParseDate(@) - 1 ELSE 0)]
       ELSE localStorage
  /\ nextSessionFire' = {t - 1 : t \in nextSessionFire}
  /\ nextBatchFire' = {t - 1 : t \in nextBatchFire}
  /\ UNCHANGED <<constructed, destroyed, config, sessionId, uuidCount, events,
                 performanceMetrics, inflight, metricsInflight, nextEventId,
                 nextMetricId, failures, logged, escaped, delivered, deliveredMetrics, navVars>>

\* the collector's listeners and history wrappers are installed
Installed == constructed /\ ~destroyed

\* what a navigation step leaves alone
NavigationFrame ==
  UNCHANGED <<constructed, destroyed, config, localStorage, sessionId, uuidCount,
              events, inflight, nextSessionFire, nextBatchFire, nextEventId,
              failures, logged, escaped, delivered, deliveredMetrics, listeners,
              historyPushState, historyReplaceState, colorIdentifier, collectors,
              pageHistory, reacted>>

\* handlePathChange() called by the page
HandlePathChange ==
  /\ constructed
  /\ \E hasPerformanceObserver \in BOOLEAN, navigationEntry \in BOOLEAN :
       ApplySelf(handlePathChange(config, Self, history, hasPerformanceObserver,
                                  navigationEntry))
  /\ UNCHANGED history
  /\ NavigationFrame

\* history.pushState(state, title, url) called by the page: the collector's
\* wrapper while it is installed, the browser's own method otherwise
PushState ==
  /\ history.index < MaxHistory
  /\ \E args \in HistoryArgs, hasPerformanceObserver \in BOOLEAN,
        navigationEntry \in BOOLEAN :
       IF historyPushState = Wrapper
       THEN LET r == pushState(config, Self, history, args, hasPerformanceObserver,
                               navigationEntry)
            IN history' = r.history /\ ApplySelf(r.self)
       ELSE history' = originalPushState(history, args) /\ ApplySelf(Self)
  /\ NavigationFrame

\* history.replaceState(state, title, url) called by the page
ReplaceState ==
  /\ \E args \in HistoryArgs, hasPerformanceObserver \in BOOLEAN,
        navigationEntry \in BOOLEAN :
       IF historyReplaceState = Wrapper
       THEN LET r == replaceState(config, Self, history, args, hasPerformanceObserver,
                                  navigationEntry)
            IN history' = r.history /\ ApplySelf(r.self)
       ELSE history' = originalReplaceState(history, args) /\ ApplySelf(Self)
  /\ NavigationFrame

\* back / forward: the browser moves to another entry and fires popstate
PopState ==
  /\ \E i \in 1..Len(history.entries), hasPerformanceObserver \in BOOLEAN,
        navigationEntry \in BOOLEAN :
       /\ i # history.index
       /\ history' = [history EXCEPT !.index = i]
       /\ ApplySelf(IF "popstate" \in listeners
                    THEN popstateListener(config, Self, history',
                                          hasPerformanceObserver, navigationEntry)
                    ELSE Self)
  /\ NavigationFrame

\* destroy(): both intervals are cleared, the observers disconnected, the
\* listeners removed and the history methods restored
Destroy ==
  /\ constructed
  /\ ~destroyed
  /\ destroyed' = TRUE
  /\ LET c == destroy(Installation)
     IN /\ nextSessionFire' = c.nextSessionFire
        /\ nextBatchFire' = c.nextBatchFire
        /\ created' = c.created
        /\ observers' = c.observers
        /\ listeners' = c.listeners
        /\ historyPushState' = c.historyPushState
        /\ historyReplaceState' = c.historyReplaceState
        /\ events' = c.events
  /\ UNCHANGED <<constructed, config, localStorage, sessionId, uuidCount,
                 performanceMetrics, inflight, metricsInflight, nextEventId,
                 nextMetricId, failures, logged, escaped, delivered, deliveredMetrics,
                 history, currentPath, browserInfo, colorIdentifier, collectors,
                 pageHistory, reacted>>

\* a click on an element of the document, while the collector's listener is
\* registered
Click ==
  /\ "click" \in listeners
  /\ nextEventId <= MaxClicks
  /\ \E reading \in TargetReadings, c \in BeaconCases :
       LET r == clickListener(config, events, nextEventId, reading, sessionId,
                              c[1], c[2])
       IN /\ ApplySendEvents(r)
          /\ nextEventId' = IF reading = {} THEN nextEventId ELSE nextEventId + 1
  /\ UNCHANGED <<constructed, destroyed, config, localStorage, sessionId, uuidCount,
                 performanceMetrics, metricsInflight, nextSessionFire,
                 nextBatchFire, nextMetricId, deliveredMetrics, navVars>>

\* visibilitychange is fired while the collector's listener is registered
VisibilityChange ==
  /\ "visibilitychange" \in listeners
  /\ nextEventId <= MaxEvents
  /\ \E c \in BeaconCases :
       ApplySendEvents(visibilityListener(config, events, nextEventId, sessionId,
                                          c[1], c[2]))
  /\ nextEventId' = nextEventId + 1
  /\ UNCHANGED <<constructed, destroyed, config, localStorage, sessionId, uuidCount,
                 performanceMetrics, metricsInflight, nextSessionFire,
                 nextBatchFire, nextMetricId, deliveredMetrics, navVars>>

\* updateSearchRequestId(searchRequestId) called by the page
UpdateSearchRequestId ==
  /\ constructed
  /\ \E searchRequestId \in PageSearchRequestIds :
       config' = updateSearchRequestId(config, searchRequestId)
  /\ UNCHANGED <<constructed, destroyed, localStorage, sessionId, uuidCount, events,
                 performanceMetrics, inflight, metricsInflight, nextSessionFire,
                 nextBatchFire, nextEventId, nextMetricId, failures, logged, escaped,
                 delivered, deliveredMetrics, navVars>>

\* the browser reports layout shifts to a connected layout-shift observer of
\* the collector
LayoutShift ==
  /\ \E o \in Members(observers) :
       created[o].entryType = "layout-shift" /\ created[o].connected
  /\ nextMetricId <= MaxMetrics
  /\ \E entries \in LayoutShiftEntries :
       ApplySendMetrics(layoutShiftCallback(config, performanceMetrics, nextMetricId,
                                            entries, sessionId))
  /\ nextMetricId' = nextMetricId + 1
  /\ UNCHANGED <<constructed, destroyed, config, localStorage, sessionId, uuidCount,
                 events, inflight, nextSessionFire, nextBatchFire, nextEventId,
                 failures, logged, escaped, delivered, deliveredMetrics, navVars>>

\* checkSessionExpiration() called by the page
CheckSessionExpiration ==
  /\ constructed
  /\ ApplySession(checkSessionExpiration(config, localStorage, sessionId, generateUUID))
  /\ UNCHANGED <<constructed, destroyed, config, events, performanceMetrics,
                 inflight, metricsInflight, nextSessionFire, nextBatchFire, nextEventId,
                 nextMetricId, failures, logged, escaped, delivered, deliveredMetrics,
                 navVars>>

\* the variables of the single collector followed in detail
collectorVars ==
  <<coreVars, history, currentPath, browserInfo, created, observers, listeners,
    historyPushState, historyReplaceState, colorIdentifier>>

\* the effect of a constructor or destroy() result pg on the page
ApplyPage(pg) ==
  /\ collectors' = pg.collectors
  /\ pageHistory' = pg.history

\* new SearchBehaviorAnalysisCollector(config) for one more collector of the
\* page, which returns or throws
ConstructCollector ==
  /\ \E k \in 1..MaxCollectors, f \in ConstructorFailures :
       /\ collectors[k].phase = "none"
       /\ \A j \in 1..(k - 1) : collectors[j].phase # "none"
       /\ f[1] = "observer" => config.performanceMetricsEnabled
       /\ ApplyPage(constructorOn(config, Page, k, f))
  /\ UNCHANGED <<collectorVars, reacted>>

\* destroy() of a collector the page holds
DestroyCollector ==
  /\ \E k \in 1..MaxCollectors :
       /\ collectors[k].phase = "constructed"
       /\ ApplyPage(destroyOn(Page, k))
  /\ UNCHANGED <<collectorVars, reacted>>

\* the page calls history.pushState or history.replaceState
HistoryCall ==
  /\ \E method \in {"pushState", "replaceState"} :
       reacted' = Reacting(Page, pageHistory[method], method)
  /\ UNCHANGED <<collectorVars, collectors, pageHistory>>

Next ==
  \/ Construct
  \/ TrackEvent
  \/ TrackClick
  \/ TrackConversion
  \/ ResetSession
  \/ SendEvents
  \/ BeforeUnload
  \/ BatchTimer
  \/ SettleEvents
  \/ TrackPerformanceMetric
  \/ SendPerformanceMetrics
  \/ SettleMetrics
  \/ SessionTimer
  \/ Tick
  \/ HandlePathChange
  \/ PushState
  \/ ReplaceState
  \/ PopState
  \/ Destroy
  \/ Click
  \/ VisibilityChange
  \/ UpdateSearchRequestId
  \/ LayoutShift
  \/ CheckSessionExpiration
  \/ ConstructCollector
  \/ DestroyCollector
  \/ HistoryCall

Spec == Init /\ [][Next]_vars

\* ------------------------------------------------------------ projections
\* The two queues share no state, and neither reads the clock.  The claims are
\* checked on projections of Next that leave out the handlers whose state the
\* claim does not read; every handler left in is the whole handler of Next.

EmptyStorage == [k \in Keys |-> NULL]

\* both queues and their transports; no time passes
NextDelivery ==
  \/ Construct
  \/ TrackEvent
  \/ TrackClick
  \/ SendEvents
  \/ BeforeUnload
  \/ SettleEvents
  \/ TrackPerformanceMetric
  \/ SendPerformanceMetrics
  \/ SettleMetrics

SpecDelivery ==
  InitWith({c \in PlainConfigs : c.sessionId = NULL}, {EmptyStorage})
    /\ [][NextDelivery]_vars

\* the event queue with its three flush triggers, the clock and the session
NextEvents ==
  \/ Construct
  \/ TrackEvent
  \/ TrackClick
  \/ SendEvents
  \/ BeforeUnload
  \/ BatchTimer
  \/ SettleEvents
  \/ SessionTimer
  \/ Tick
  \/ Destroy

SpecEvents ==
  InitWith({c \in PlainConfigs : ~c.performanceMetricsEnabled}, {EmptyStorage})
    /\ [][NextEvents]_vars

\* the session from every storage a page can start with; no fetch settles
NextSession ==
  \/ Construct
  \/ TrackEvent
  \/ TrackClick
  \/ BatchTimer
  \/ SessionTimer
  \/ Tick
  \/ Destroy

SpecSession ==
  InitWith({c \in PlainConfigs : ~c.performanceMetricsEnabled}, Storages)
    /\ [][NextSession]_vars

\* The event queue of a collector that is never destroyed, on a page whose
\* clock runs, whose intervals fire when due and whose fetches settle.  The
\* session id is injected: the sweep then re-derives it at every expiry and
\* never draws a new identifier, so the run is not cut short by MaxUUIDs.
NextLive ==
  \/ Construct
  \/ TrackEvent
  \/ TrackClick
  \/ SendEvents
  \/ BeforeUnload
  \/ BatchTimer
  \/ SettleEvents
  \/ SessionTimer
  \/ Tick

LiveSpec ==
  /\ InitWith({c \in PlainConfigs : c.sessionId # NULL /\ ~c.performanceMetricsEnabled},
              {EmptyStorage})
  /\ [][NextLive]_vars
  /\ WF_vars(Construct)
  /\ WF_vars(Tick)
  /\ WF_vars(BatchTimer)
  /\ WF_vars(SessionTimer)
  /\ WF_vars(SettleEvents)

\* the session with its two explicit resets, from every storage
NextConversion ==
  \/ Construct
  \/ TrackEvent
  \/ TrackClick
  \/ TrackConversion
  \/ ResetSession
  \/ CheckSessionExpiration
  \/ SessionTimer
  \/ Tick

SpecConversion ==
  InitWith({c \in PlainConfigs : ~c.performanceMetricsEnabled}, Storages)
    /\ [][NextConversion]_vars

\* the metric queue next to the two intervals and the clock
NextMetrics ==
  \/ Construct
  \/ BatchTimer
  \/ TrackPerformanceMetric
  \/ SendPerformanceMetrics
  \/ SettleMetrics
  \/ SessionTimer
  \/ Tick

SpecMetrics ==
  InitWith({c \in PlainConfigs : c.performanceMetricsEnabled /\ c.sessionId = NULL},
           {EmptyStorage})
    /\ [][NextMetrics]_vars

\* the event queue with every trigger and transport, on pages with and
\* without a bearer token
NextTransport ==
  \/ Construct
  \/ TrackEvent
  \/ TrackClick
  \/ SendEvents
  \/ BeforeUnload
  \/ BatchTimer
  \/ Tick
  \/ SettleEvents

SpecTransport ==
  InitWith({c \in Configs : /\ c.sessionId = NULL
                            /\ c.searchRequestId = NULL
                            /\ c.batchSize = 2
                            /\ ~c.performanceMetricsEnabled},
           {EmptyStorage})
    /\ [][NextTransport]_vars

\* the step navigates to another path, with no state object
Navigates ==
  /\ Pathname(history') # Pathname(history)
  /\ history'.entries[history'.index].state = NULL

\* What the browser does to a page that calls no method of the collector but
\* destroy(): its events, its timers and its navigation.  The user is tracked
\* once at most, the page pushes one entry, and it calls replaceState only
\* after the teardown.  The session id is injected, so that the sweep draws
\* no new identifier and time is not stopped by MaxUUIDs.
NextTeardown ==
  \/ Construct
  \/ Click /\ nextEventId = 1
  \/ VisibilityChange /\ nextEventId = 1
  \/ BeforeUnload
  \/ BatchTimer
  \/ SessionTimer
  \/ Tick
  \/ PushState /\ history.index = 1 /\ Navigates
  \/ ReplaceState /\ destroyed /\ Navigates
  \/ PopState
  \/ Destroy

SpecTeardown ==
  InitWith({c \in PlainConfigs : /\ c.sessionId # NULL
                                 /\ c.performanceMetricsEnabled
                                 /\ c.batchSize = MaxBatchSize},
           {EmptyStorage})
    /\ [][NextTeardown]_vars

\* the operations that touch the storage or end the collector, from every
\* storage an earlier visit can have left
NextIdentifier ==
  \/ Construct
  \/ TrackConversion
  \/ ResetSession
  \/ CheckSessionExpiration
  \/ SessionTimer
  \/ Tick
  \/ PushState
  \/ Destroy

SpecIdentifier ==
  InitWith({c \in PlainConfigs : ~c.performanceMetricsEnabled /\ c.batchSize = MaxBatchSize},
           Storages)
    /\ [][NextIdentifier]_vars

\* the click listener next to updateSearchRequestId and the event transport,
\* on pages with and without a configured search request id
NextClicks ==
  \/ Construct
  \/ Click
  \/ UpdateSearchRequestId
  \/ SendEvents
  \/ SettleEvents
  \/ Destroy

SpecClicks ==
  InitWith({c \in Configs : /\ c.bearerToken = NULL
                            /\ c.sessionId = NULL
                            /\ ~c.performanceMetricsEnabled},
           {EmptyStorage})
    /\ [][NextClicks]_vars

\* the layout-shift observer next to the other metrics and their transport
NextMonitor ==
  \/ Construct
  \/ LayoutShift
  \/ TrackPerformanceMetric
  \/ SettleMetrics
  \/ Destroy

SpecMonitor ==
  InitWith({c \in PlainConfigs : c.performanceMetricsEnabled /\ c.sessionId = NULL},
           {EmptyStorage})
    /\ [][NextMonitor]_vars

\* The metric queue of a collector that is never destroyed, on a page whose
\* clock runs, whose intervals fire when due, whose fetches settle and which
\* fires beforeunload again and again.  The session id is injected, as in
\* LiveSpec.  Tracking a metric is possible at any time and never required.
NextLiveMetrics ==
  \/ Construct
  \/ TrackPerformanceMetric
  \/ SettleMetrics
  \/ BeforeUnload
  \/ BatchTimer
  \/ SessionTimer
  \/ Tick

LiveMetricsSpec ==
  /\ InitWith({c \in PlainConfigs : c.sessionId # NULL /\ c.performanceMetricsEnabled},
              {EmptyStorage})
  /\ [][NextLiveMetrics]_vars
  /\ WF_vars(Construct)
  /\ WF_vars(Tick)
  /\ WF_vars(BatchTimer)
  /\ WF_vars(SessionTimer)
  /\ WF_vars(BeforeUnload)
  /\ WF_vars(SettleMetrics)

\* what several collectors install on one page and take away again
NextPage ==
  \/ ConstructCollector
  \/ DestroyCollector
  \/ HistoryCall

SpecPage ==
  InitWith({c \in PlainConfigs : c.sessionId = NULL /\ c.batchSize = MaxBatchSize},
           {EmptyStorage})
    /\ [][NextPage]_vars

\* both queues and their fetches around destroy(); no time passes
NextDestroy ==
  \/ Construct
  \/ TrackEvent
  \/ TrackPerformanceMetric
  \/ SettleEvents
  \/ SettleMetrics
  \/ Destroy

SpecDestroy ==
  InitWith({c \in PlainConfigs : c.sessionId = NULL}, {EmptyStorage})
    /\ [][NextDestroy]_vars

\* navigation and the performance monitor
NextNavigation ==
  \/ Construct
  \/ HandlePathChange
  \/ PushState
  \/ ReplaceState
  \/ PopState
  \/ Destroy

SpecNavigation ==
  InitWith({c \in PlainConfigs : c.sessionId = NULL}, {EmptyStorage})
    /\ [][NextNavigation]_vars

\* ------------------------------------------------------------ claims
IdSeq(q) == [i \in 1..Len(q) |-> q[i].id]

IsPrefix(p, q) == Len(p) <= Len(q) /\ SubSeq(q, 1, Len(p)) = p

IsSuffix(p, q) == Len(p) <= Len(q) /\ SubSeq(q, Len(q) - Len(p) + 1, Len(q)) = p

NoDuplicates(q) == \A i, j \in 1..Len(q) : q[i].id = q[j].id => i = j

\* the step is a handler that starts a fetch of the event queue
StartsEventFetch == Len(inflight') = Len(inflight) + 1

\* the step is the settling of a suspended sendEvents
SettlesEventFetch == Len(inflight') = Len(inflight) - 1

StartsMetricFetch == Len(metricsInflight') = Len(metricsInflight) + 1

SettlesMetricFetch == Len(metricsInflight') = Len(metricsInflight) - 1

\* the step is a trackEvent or trackClick call
TracksEvent == nextEventId' = nextEventId + 1

TracksMetric == nextMetricId' = nextMetricId + 1

\* the event object a trackEvent / trackClick call of this step pushes
TrackedEvents ==
  {ClickEvent(nextEventId, PageClickData, sessionId)}
    \cup {CustomEvent(nextEventId, n, sessionId) : n \in {"visibility_change", "conversion"}}

\* every suspended send of the next state was suspended before with the same
\* payload, but for the one this step started
BatchesFrozen(before, after) ==
  \A j \in 1..Len(after) :
    \/ \E i \in 1..Len(before) : after[j] = before[i]
    \/ j = Len(after) /\ Len(after) = Len(before) + 1

\* C1: swap before send.  A send that starts takes the whole queue as its
\* batch and leaves the live queue empty when the fetch is issued; a track call
\* made while a send is suspended changes no suspended batch and puts its entry
\* into the live queue (or, when it flushes, into the batch it starts); the
\* settling of a send, whatever its outcome, keeps every entry of the live
\* queue, in order, at the end of the queue.  The same for the metric queue.
C1_SwapBeforeSend ==
  [][/\ BatchesFrozen(inflight, inflight')
     /\ BatchesFrozen(metricsInflight, metricsInflight')
     /\ StartsEventFetch =>
          /\ events' = <<>>
          /\ IsPrefix(events, inflight'[Len(inflight')].body.events)
     /\ StartsMetricFetch =>
          /\ performanceMetrics' = <<>>
          /\ IsPrefix(performanceMetrics,
                      metricsInflight'[Len(metricsInflight')].body.performanceMetrics)
     /\ TracksEvent =>
          \E e \in TrackedEvents :
            \/ events' = Append(events, e) /\ inflight' = inflight
            \/ /\ events' = <<>>
               /\ inflight' = Append(inflight, EventsFetch(config, EventsPayload(Append(events, e), sessionId)))
     /\ (TracksMetric /\ constructed) =>
          /\ performanceMetrics' = <<>>
          /\ StartsMetricFetch
          /\ IdSeq(metricsInflight'[Len(metricsInflight')].body.performanceMetrics)
               = Append(IdSeq(performanceMetrics), nextMetricId)
     /\ SettlesEventFetch => IsSuffix(events, events')
     /\ SettlesMetricFetch => IsSuffix(performanceMetrics, performanceMetrics')
    ]_vars

\* an event arrived while an earlier batch is suspended, and two metric sends
\* are suspended at once
C1_Witness ==
  /\ Len(inflight) = 1
  /\ IdSeq(inflight[1].body.events) = <<1, 2>>
  /\ IdSeq(events) = <<3>>
  /\ Len(metricsInflight) = 2
  /\ IdSeq(metricsInflight[1].body.performanceMetrics) = <<1>>
  /\ IdSeq(metricsInflight[2].body.performanceMetrics) = <<2>>

\* C2: requeue on failure.  When a sendEvents attempt fails, the queue after
\* it starts with the failed batch in its order, ends with the queue as it was
\* at that moment (everything that arrived during the send), and is at least
\* as long as the batch.
C2_RequeueOnFailure ==
  [][/\ (SettlesEventFetch /\ failures' = failures + 1) =>
          \E i \in 1..Len(inflight) :
            /\ inflight' = RemoveAt(inflight, i)
            /\ IsPrefix(inflight[i].body.events, events')
            /\ IsSuffix(events, events')
            /\ Len(events') >= Len(inflight[i].body.events) + Len(events)
     /\ (inflight' = inflight /\ failures' = failures + 1) =>
          /\ IsPrefix(events, events')
          /\ Len(events') >= Len(events)
          /\ Len(events) > 0
    ]_vars

\* the batch <<1, 2>> failed once while event 3 arrived during the send
C2_Witness ==
  /\ failures = 1
  /\ inflight = <<>>
  /\ delivered = {}
  /\ IdSeq(events) = <<1, 2, 3>>

\* C3: no tracked event occurs twice in the live event queue and no tracked
\* metric twice in the live metric queue.
C3_NoDuplication == NoDuplicates(events) /\ NoDuplicates(performanceMetrics)

\* C4: batch-size trigger.  A track call appends its event and, in the same
\* step, starts exactly one fetch holding the whole queue in call order and
\* leaves the queue empty if and only if the queue length after the append is
\* at least batchSize; otherwise it starts nothing.
C4_BatchSizeTrigger ==
  [][TracksEvent =>
       \E e \in TrackedEvents :
         IF Len(events) + 1 >= config.batchSize
         THEN /\ events' = <<>>
              /\ inflight' = Append(inflight, EventsFetch(config, EventsPayload(Append(events, e), sessionId)))
              /\ delivered' = delivered
              /\ failures' = failures
         ELSE /\ events' = Append(events, e)
              /\ inflight' = inflight
              /\ delivered' = delivered
              /\ failures' = failures
    ]_vars

\* batchSize 2: after the second track call one fetch holds both events and
\* the queue is empty
C4_Witness ==
  /\ config.batchSize = 2
  /\ nextEventId = 3
  /\ events = <<>>
  /\ Len(inflight) = 1
  /\ IdSeq(inflight[1].body.events) = <<1, 2>>
  /\ failures = 0
  /\ delivered = {}

\* no send has been started yet: nothing is suspended, delivered or failed
NoFlushYet == inflight = <<>> /\ delivered = {} /\ failures = 0

\* C5: queue contents.  Until a flush starts the queue holds exactly the
\* tracked events in call order; a flush takes the whole queue as one batch;
\* a send that succeeds while the queue is empty leaves it empty.
C5_QueueContents ==
  [][/\ NoFlushYet' => IdSeq(events') = [i \in 1..(nextEventId' - 1) |-> i]
     /\ StartsEventFetch =>
          /\ events' = <<>>
          /\ IsPrefix(events, inflight'[Len(inflight')].body.events)
          /\ Len(inflight'[Len(inflight')].body.events) <= Len(events) + 1
     /\ (inflight' = inflight /\ delivered' # delivered) =>
          /\ events' = <<>>
          /\ delivered' = delivered \cup IdsOf(events)
     /\ (SettlesEventFetch /\ failures' = failures /\ events = <<>>) => events' = <<>>
    ]_vars

\* two events tracked with batchSize 3 and nothing flushed
C5_Witness ==
  /\ config.batchSize = 3
  /\ NoFlushYet
  /\ IdSeq(events) = <<1, 2>>

\* the step is the callback of the batch interval
BatchTimerFires == DateNow \in nextBatchFire /\ nextBatchFire' = {DateNow + config.sendInterval}

\* C6: eventual delivery of events.  On a collector that is never destroyed,
\* whose send timer keeps firing and whose transport fails only finitely often
\* (at most MaxFailures times), every event accepted by trackEvent or
\* trackClick is eventually in a batch whose send succeeded.
C6_EventualDelivery ==
  \A i \in 1..MaxEvents : (nextEventId > i) ~> (i \in delivered)

\* an accepted event is back in the queue after every allowed failure, none
\* delivered yet
C6_Witness ==
  /\ failures = MaxFailures
  /\ delivered = {}
  /\ inflight = <<>>
  /\ 1 \in IdsOf(events)

\* the step is the passage of one unit of time with the batch interval armed
TimePasses == nextBatchFire # {} /\ nextBatchFire' = {t - 1 : t \in nextBatchFire}

\* C7: timer flush.  While the collector is not destroyed the batch interval
\* is armed and due within sendInterval; time does not pass a due interval;
\* when it fires with a non-empty queue one fetch with the whole queue is
\* started, whatever batchSize is, and with an empty queue nothing is sent;
\* either way the queue is empty after the tick.
C7_TimerFlush ==
  [][/\ (constructed' /\ ~destroyed') =>
          \E t \in nextBatchFire' :
            /\ nextBatchFire' = {t}
            /\ DateNow <= t
            /\ t <= DateNow + config.sendInterval
     /\ TimePasses => DateNow \notin nextBatchFire
     /\ BatchTimerFires =>
          /\ events' = <<>>
          /\ IF Len(events) > 0
             THEN inflight' = Append(inflight, EventsFetch(config, EventsPayload(events, sessionId)))
             ELSE inflight' = inflight
          /\ delivered' = delivered
          /\ failures' = failures
    ]_vars

\* the batch interval is due with one event queued, fewer than batchSize
C7_Witness ==
  /\ ~destroyed
  /\ DateNow \in nextBatchFire
  /\ IdSeq(events) = <<1>>
  /\ config.batchSize > 1
  /\ inflight = <<>>

\* the step is the constructor
Constructs == ~constructed /\ constructed'

\* the stored session is one getOrCreateSessionId reuses
StoredSessionValid ==
  /\ localStorage[KeyId] # NULL
  /\ localStorage[KeyTs] # NULL
  /\ DateNow - ParseDate(localStorage[KeyTs]) < config.sessionTimeout

\* C8: session derivation without injection.  The constructor's
\* getOrCreateSessionId returns the stored id and writes nothing if and only
\* if an id and a timestamp are stored and the age is below sessionTimeout;
\* otherwise it returns an id that differs from the stored one and persists
\* it with the timestamp of now.
C8_SessionDerivation ==
  [][(Constructs /\ config.sessionId = NULL) =>
       /\ (/\ sessionId' = localStorage[KeyId]
           /\ localStorage'[KeyId] = localStorage[KeyId]
           /\ localStorage'[KeyTs] = localStorage[KeyTs])
            <=> StoredSessionValid
       /\ ~StoredSessionValid =>
            /\ sessionId' # NULL
            /\ sessionId' # localStorage[KeyId]
            /\ localStorage'[KeyId] = sessionId'
            /\ localStorage'[KeyTs] = ToISOString(DateNow)
    ]_vars

\* a stored session one unit short of the timeout was reused
C8_Witness ==
  /\ constructed
  /\ config.sessionId = NULL
  /\ sessionId = StoredId
  /\ localStorage[KeyId] = StoredId
  /\ localStorage[KeyTs] = ToISOString(DateNow - (config.sessionTimeout - 1))
  /\ uuidCount = 0

\* C9: session injection wins.  With config.sessionId supplied the constructor
\* sets sessionId to it and persists it with the timestamp of now, whatever
\* was stored.
C9_InjectionWins ==
  [][(Constructs /\ config.sessionId # NULL) =>
       /\ sessionId' = config.sessionId
       /\ localStorage'[KeyId] = config.sessionId
       /\ localStorage'[KeyTs] = ToISOString(DateNow)
    ]_vars

\* the injected id is in force and persisted
C9_Witness ==
  /\ constructed
  /\ config.sessionId = InjectedId
  /\ sessionId = InjectedId
  /\ localStorage[KeyId] = InjectedId
  /\ localStorage[KeyTs] # NULL
  /\ uuidCount = 0

\* C10: tracking an event or a click is activity: it sets the session's
\* persisted timestamp to now.
C10_TrackingTouchesSession ==
  [][TracksEvent => localStorage'[KeyTs] = ToISOString(DateNow)]_vars

\* the step is the callback of the session interval
SessionTimerFires ==
  DateNow \in nextSessionFire /\ nextSessionFire' = {DateNow + SessionCheckInterval}

\* a timestamp is persisted and its age has reached sessionTimeout
SessionExpired ==
  /\ localStorage[KeyTs] # NULL
  /\ DateNow - ParseDate(localStorage[KeyTs]) >= config.sessionTimeout

\* C11: periodic expiry sweep.  While the collector is not destroyed the
\* session interval is armed and due within one check interval, and time does
\* not pass a due interval; when it fires, the session is reset (persisted id
\* and timestamp replaced, and without injection a new sessionId) exactly when
\* a timestamp is persisted whose age is at least sessionTimeout, and nothing
\* of the session changes otherwise; hence the age of the persisted timestamp
\* stays below sessionTimeout plus one check interval.
C11_ExpirySweep ==
  /\ []((constructed /\ ~destroyed) =>
          /\ \E t \in nextSessionFire :
               /\ nextSessionFire = {t}
               /\ DateNow <= t
               /\ t <= DateNow + SessionCheckInterval
          /\ localStorage[KeyTs] # NULL =>
               DateNow - ParseDate(localStorage[KeyTs])
                 < config.sessionTimeout + SessionCheckInterval)
  /\ [][/\ (nextSessionFire # {} /\ nextSessionFire' = {t - 1 : t \in nextSessionFire})
            => DateNow \notin nextSessionFire
        /\ SessionTimerFires =>
             IF SessionExpired
             THEN /\ localStorage'[KeyTs] = ToISOString(DateNow)
                  /\ localStorage'[KeyId] = sessionId'
                  /\ config.sessionId = NULL =>
                       /\ sessionId' # sessionId
                       /\ sessionId' # localStorage[KeyId]
                       /\ sessionId' # NULL
             ELSE UNCHANGED <<sessionId, localStorage>>
       ]_vars

\* the sweep has just replaced the session the constructor created
C11_Witness ==
  /\ constructed
  /\ ~destroyed
  /\ config.sessionId = NULL
  /\ uuidCount = 2
  /\ sessionId = UUID(2)
  /\ localStorage[KeyId] = UUID(2)
  /\ localStorage[KeyTs] = ToISOString(DateNow)
  /\ nextSessionFire = {DateNow + SessionCheckInterval}

\* what a track call of this step with event e does to the queue: the event
\* is appended and, when the queue has reached batchSize, the whole queue is
\* handed to one fetch under the session id in force before the call
QueuedWithBatchCheck(e) ==
  IF Len(events) + 1 >= config.batchSize
  THEN /\ events' = <<>>
       /\ inflight' = Append(inflight,
                        EventsFetch(config, EventsPayload(Append(events, e), sessionId)))
  ELSE /\ events' = Append(events, e)
       /\ inflight' = inflight

\* the event object pushed by the track call of this step
PushedEvent ==
  IF events' # <<>>
  THEN events'[Len(events')]
  ELSE LET b == inflight'[Len(inflight')].body.events IN b[Len(b)]

\* C12 as claimed: trackConversion queues exactly one custom_event named
\* 'conversion' stamped with the sessionId in force before the call, running
\* the batch-size check, and then resets the session: after the call sessionId
\* is a new id, the persisted id and timestamp are replaced, and every event
\* tracked later carries the id then in force.
C12_ConversionOrdering ==
  [][/\ TrackConversion =>
          /\ QueuedWithBatchCheck(CustomEvent(nextEventId, "conversion", sessionId))
          /\ nextEventId' = nextEventId + 1
          /\ sessionId' # sessionId
          /\ sessionId' # NULL
          /\ localStorage'[KeyId] = sessionId'
          /\ localStorage'[KeyTs] = ToISOString(DateNow)
     /\ TracksEvent => PushedEvent.sessionId = sessionId
    ]_vars

\* C12 amended: as claimed, but the sessionId after the call is a new id only
\* when no session id was injected; with an injected id the reset re-derives
\* the injected id, persisted with a fresh timestamp.
C12_ConversionOrderingAmended ==
  [][/\ TrackConversion =>
          /\ QueuedWithBatchCheck(CustomEvent(nextEventId, "conversion", sessionId))
          /\ nextEventId' = nextEventId + 1
          /\ IF config.sessionId = NULL
             THEN sessionId' # sessionId /\ sessionId' # NULL
             ELSE sessionId' = config.sessionId
          /\ localStorage'[KeyId] = sessionId'
          /\ localStorage'[KeyTs] = ToISOString(DateNow)
     /\ TracksEvent => PushedEvent.sessionId = sessionId
    ]_vars

\* a conversion is queued under the first session and a later event under the
\* session the conversion started
C12_Witness ==
  /\ config.sessionId = NULL
  /\ config.batchSize = 3
  /\ events = <<CustomEvent(1, "conversion", UUID(1)),
                CustomEvent(2, "visibility_change", UUID(2))>>
  /\ sessionId = UUID(2)
  /\ localStorage[KeyId] = UUID(2)

\* C13: resetSession yields a new session.  Without an injected id, a call
\* of resetSession in any state the collector can be in sets a sessionId that
\* differs from the one before the call and from the id that was persisted,
\* and leaves the new id and the time of the call persisted; every
\* resetSession step does so.
C13_ResetSessionNew ==
  /\ []((constructed /\ config.sessionId = NULL) =>
          LET r == resetSession(config, localStorage, generateUUID)
          IN /\ r.ret # sessionId
             /\ r.ret # NULL
             /\ r.ret # localStorage[KeyId]
             /\ r.ls[KeyId] = r.ret
             /\ r.ls[KeyTs] = ToISOString(DateNow))
  /\ [][(ResetSession /\ config.sessionId = NULL) =>
          /\ sessionId' # sessionId
          /\ sessionId' # NULL
          /\ sessionId' # localStorage[KeyId]
          /\ localStorage'[KeyId] = sessionId'
          /\ localStorage'[KeyTs] = ToISOString(DateNow)
       ]_vars

\* resetSession has replaced the session the constructor created, before any
\* event was tracked and before the first sweep
C13_Witness ==
  /\ constructed
  /\ config.sessionId = NULL
  /\ nextEventId = 1
  /\ nextSessionFire = {DateNow + SessionCheckInterval - 1}
  /\ uuidCount = 2
  /\ sessionId = UUID(2)
  /\ localStorage[KeyId] = UUID(2)
  /\ localStorage[KeyTs] = ToISOString(DateNow)

\* the session id a metric tracked in this step is stamped with: the one in
\* force, which for the constructor's own metric is the one it has just derived
StampOfStep == IF constructed THEN sessionId ELSE sessionId'

\* C14: metrics are sent eagerly.  Every trackPerformanceMetric call appends
\* the metric, stamped with the sessionId in force, and starts one POST to the
\* metrics endpoint in the same step whose body holds the whole metric queue
\* (what earlier failures requeued, then the new metric), leaving the queue
\* empty; no timer starts a metrics POST or touches the metric queue.
C14_MetricsEager ==
  [][/\ TracksMetric =>
          \E type \in {"LCP", "NAVIGATION"} :
            /\ metricsInflight' =
                 Append(metricsInflight,
                        MetricsFetch(config,
                          MetricsPayload(
                            Append(performanceMetrics,
                                   Metric(nextMetricId, type, StampOfStep)),
                            StampOfStep)))
            /\ performanceMetrics' = <<>>
     /\ (BatchTimerFires \/ SessionTimerFires \/ TimePasses) =>
          UNCHANGED <<performanceMetrics, metricsInflight, nextMetricId>>
     /\ StartsMetricFetch => (TracksMetric \/ SendPerformanceMetrics)
    ]_vars

\* the POST started by the second metric also holds the first, which an
\* earlier failure put back
C14_Witness ==
  /\ failures = 1
  /\ performanceMetrics = <<>>
  /\ Len(metricsInflight) = 1
  /\ IdSeq(metricsInflight[1].body.performanceMetrics) = <<1, 2>>
  /\ metricsInflight[1].url = config.metricsEndpoint
  /\ deliveredMetrics = {}

\* the step handed a batch to the beacon transport: no fetch was started and
\* the batch was received or the attempt failed
BeaconStep == inflight' = inflight /\ (delivered' # delivered \/ failures' # failures)

\* C15: transport selection.  In every state of the collector, a sendEvents
\* call with a non-empty queue hands the batch to the beacon transport exactly
\* when forceBeacon is true and the beacon transport exists, and to a fetch
\* POST otherwise, never to both; the beforeunload listener uses the beacon
\* whenever it exists, and the batch-size and timer triggers never use it.
C15_TransportSelection ==
  /\ [](constructed =>
          \A c \in BeaconCases :
            /\ \A useSendBeacon \in BOOLEAN :
                 LET r == sendEvents(config, events, sessionId, useSendBeacon, c[1], c[2])
                     data == EventsPayload(events, sessionId)
                 IN /\ r.beaconed = IF events # <<>> /\ useSendBeacon /\ c[1]
                                    THEN <<EventsBeacon(config, data)>>
                                    ELSE <<>>
                    /\ r.started = IF events # <<>> /\ ~(useSendBeacon /\ c[1])
                                   THEN <<EventsFetch(config, data)>>
                                   ELSE <<>>
            /\ LET r == beforeunloadListener(config, events, sessionId, c[1], c[2])
               IN /\ r.beaconed # <<>> <=> (events # <<>> /\ c[1])
                  /\ r.started # <<>> <=> (events # <<>> /\ ~c[1])
            /\ batchIntervalCallback(config, events, sessionId, c[1], c[2]).beaconed = <<>>
            /\ \A e \in TrackedEvents :
                 track(config, events, e, sessionId, c[1], c[2]).beaconed = <<>>)
  /\ [][/\ StartsEventFetch => (delivered' = delivered /\ failures' = failures)
        /\ (TracksEvent \/ BatchTimerFires) => ~BeaconStep
       ]_vars

\* a batch went out by fetch when the queue reached batchSize, and the event
\* queued after it was handed to the beacon at unload
C15_Witness ==
  /\ config.batchSize = 2
  /\ Len(inflight) = 1
  /\ IdSeq(inflight[1].body.events) = <<1, 2>>
  /\ delivered = {3}
  /\ events = <<>>
  /\ failures = 0

\* the value of the Authorization header for a token: `Bearer ${token}`
BearerHeader(token) == <<"Bearer", token>>

\* C16: bearer token.  Every fetch POST of an event batch carries the header
\* Authorization: Bearer <token> when config.bearerToken is set and no
\* Authorization header when it is not; no metrics POST carries the header.
C16_BearerToken ==
  /\ \A i \in 1..Len(inflight) :
       IF config.bearerToken # NULL
       THEN /\ "Authorization" \in DOMAIN inflight[i].headers
            /\ inflight[i].headers["Authorization"] = BearerHeader(config.bearerToken)
       ELSE "Authorization" \notin DOMAIN inflight[i].headers
  /\ \A i \in 1..Len(metricsInflight) :
       "Authorization" \notin DOMAIN metricsInflight[i].headers

\* every entry of the sequence q is an event object
OnlyEvents(q) == \A i \in 1..Len(q) : q[i].type \in {"custom_event", "click"}

\* every entry of the sequence q is a metric object
OnlyMetrics(q) == \A i \in 1..Len(q) : q[i].type \in {"LCP", "NAVIGATION"}

EventSideChanges == events' # events \/ inflight' # inflight \/ delivered' # delivered

MetricSideChanges ==
  \/ performanceMetrics' # performanceMetrics
  \/ metricsInflight' # metricsInflight
  \/ deliveredMetrics' # deliveredMetrics

\* C17: queue separation.  Every event request goes to config.endpoint with a
\* body of events only, every metric request to config.metricsEndpoint with a
\* body of metrics only, and the two endpoints differ; the queues hold only
\* their own kind; a beacon call carries events to config.endpoint; a step on
\* one queue leaves the other queue, its requests and its deliveries
\* unchanged, at page unload too; metrics are delivered only by a settled fetch.
C17_QueueSeparation ==
  /\ [](/\ config.endpoint # config.metricsEndpoint
        /\ OnlyEvents(events)
        /\ OnlyMetrics(performanceMetrics)
        /\ \A i \in 1..Len(inflight) :
             /\ inflight[i].url = config.endpoint
             /\ DOMAIN inflight[i].body = {"events", "sessionId"}
             /\ OnlyEvents(inflight[i].body.events)
        /\ \A i \in 1..Len(metricsInflight) :
             /\ metricsInflight[i].url = config.metricsEndpoint
             /\ DOMAIN metricsInflight[i].body = {"performanceMetrics", "sessionId"}
             /\ OnlyMetrics(metricsInflight[i].body.performanceMetrics)
        /\ constructed =>
             \A c \in BeaconCases :
               LET r == beforeunloadListener(config, events, sessionId, c[1], c[2])
               IN \A k \in 1..Len(r.beaconed) :
                    /\ r.beaconed[k].url = config.endpoint
                    /\ DOMAIN r.beaconed[k].body = {"events", "sessionId"}
                    /\ r.beaconed[k].body.events = events)
  /\ [][/\ EventSideChanges => ~MetricSideChanges
        /\ BeforeUnload => ~MetricSideChanges
        /\ deliveredMetrics' # deliveredMetrics => SettlesMetricFetch
       ]_vars

\* an event was delivered while a metric that failed waits in its own queue
\* and another metric request is suspended
C17_Witness ==
  /\ IdSeq(performanceMetrics) = <<1>>
  /\ Len(metricsInflight) = 1
  /\ IdSeq(metricsInflight[1].body.performanceMetrics) = <<2>>
  /\ failures = 1
  /\ delivered = {1}
  /\ events = <<>>
  /\ inflight = <<>>

\* the collector reacted to a path in this step: its path, its snapshot or
\* its monitor changed
NavReaction ==
  \/ currentPath' # currentPath
  \/ browserInfo' # browserInfo
  \/ observers' # observers
  \/ created' # created

\* the monitor was installed anew in this step: the observers it had are
\* disconnected and this._observers is a new array
MonitorReinstalled ==
  /\ observers' # {}
  /\ \A i \in 1..Len(created) : ~created'[i].connected
  /\ \A i \in Members(observers') : i > Len(created) /\ created'[i].connected

\* C18: navigation state machine.  handlePathChange sets currentPath to the
\* browser's pathname, re-captures browserInfo and, when
\* performanceMetricsEnabled, re-installs the performance monitor, if and only
\* if the pathname differs from currentPath; when they are equal it changes
\* nothing, so a second handlePathChange with no navigation in between has no
\* effect.
C18_NavigationStateMachine ==
  /\ [](constructed =>
          \A hasPerformanceObserver \in BOOLEAN, navigationEntry \in BOOLEAN :
            LET c == handlePathChange(config, Self, history, hasPerformanceObserver,
                                      navigationEntry)
            IN /\ c.currentPath = Pathname(history)
               /\ Pathname(history) = currentPath => c = Self
               /\ Pathname(history) # currentPath =>
                    /\ c.browserInfo = {[path |-> Pathname(history)]}
                    /\ ~config.performanceMetricsEnabled =>
                         (c.created = created /\ c.observers = observers)
               /\ \A again \in BOOLEAN, entry \in BOOLEAN :
                    handlePathChange(config, c, history, again, entry) = c)
  /\ [][/\ (HandlePathChange /\ Pathname(history) # currentPath) =>
             /\ currentPath' = Pathname(history)
             /\ browserInfo' = {[path |-> Pathname(history)]}
             /\ IF config.performanceMetricsEnabled
                THEN MonitorReinstalled
                ELSE UNCHANGED <<created, observers>>
        /\ (constructed /\ destroyed' = destroyed /\ NavReaction) =>
             /\ Pathname(history') # currentPath
             /\ currentPath' = Pathname(history')
       ]_vars

\* after a move to /search the collector follows with a new snapshot and a
\* monitor installed anew
C18_Witness ==
  /\ constructed
  /\ config.performanceMetricsEnabled
  /\ currentPath = "/search"
  /\ browserInfo = {[path |-> "/search"]}
  /\ Len(created) = 2 * Len(EntryTypes)
  /\ \A i \in 1..Len(EntryTypes) : ~created[i].connected
  /\ observers = {[k \in 1..Len(EntryTypes) |-> Len(EntryTypes) + k]}

\* C19: navigation hooks.  While the collector is installed, a pushState or
\* replaceState call does what the browser's own method does with the same
\* arguments and then what handlePathChange does in the history that results,
\* and a popstate does what handlePathChange does; so currentPath is the
\* browser's pathname while the collector is installed.  Once the collector is
\* no longer installed, a change of the history causes no reaction.
C19_NavigationHooks ==
  /\ []((constructed /\ ~destroyed) =>
          /\ currentPath = Pathname(history)
          /\ \A args \in HistoryArgs, hasPerformanceObserver \in BOOLEAN,
                navigationEntry \in BOOLEAN :
               /\ LET r == pushState(config, Self, history, args,
                                     hasPerformanceObserver, navigationEntry)
                  IN /\ r.history = originalPushState(history, args)
                     /\ r.self = handlePathChange(config, Self,
                                   originalPushState(history, args),
                                   hasPerformanceObserver, navigationEntry)
               /\ LET r == replaceState(config, Self, history, args,
                                        hasPerformanceObserver, navigationEntry)
                  IN /\ r.history = originalReplaceState(history, args)
                     /\ r.self = handlePathChange(config, Self,
                                   originalReplaceState(history, args),
                                   hasPerformanceObserver, navigationEntry)
               /\ popstateListener(config, Self, history, hasPerformanceObserver,
                                   navigationEntry)
                    = handlePathChange(config, Self, history, hasPerformanceObserver,
                                       navigationEntry))
  /\ [][/\ (history' # history /\ constructed /\ ~destroyed) =>
             currentPath' = Pathname(history')
        /\ (history' # history /\ ~(constructed /\ ~destroyed)) => ~NavReaction
       ]_vars

\* the page pushed two entries and went back one: the collector is at the
\* path of the entry the browser is at
C19_Witness ==
  /\ constructed
  /\ ~destroyed
  /\ Len(history.entries) = 3
  /\ history.index = 2
  /\ history.entries[2] = [state |-> <<"state">>, url |-> "/search"]
  /\ history.entries[3].url = "/"
  /\ currentPath = "/search"
  /\ browserInfo = {[path |-> "/search"]}

\* C20: monitor setup is idempotent.  Every connected observer is one of
\* this._observers, which holds either none (no observer API) or one observer
\* per entry type, five in all, connected until destroy; an invocation of
\* setupPerformanceObserver leaves every observer created before it
\* disconnected and this._observers holding only observers it created.
C20_MonitorIdempotent ==
  /\ [](/\ \A i \in 1..Len(created) : created[i].connected => i \in Members(observers)
        /\ \A i, j \in 1..Len(created) :
             (/\ created[i].connected
              /\ created[j].connected
              /\ created[i].entryType = created[j].entryType) => i = j
        /\ \A s \in observers :
             /\ Len(s) \in {0, Len(EntryTypes)}
             /\ \A k \in 1..Len(s) :
                  /\ created[s[k]].entryType = EntryTypes[k]
                  /\ ~destroyed => created[s[k]].connected)
  /\ [][(observers' # observers \/ Len(created') # Len(created)) => MonitorReinstalled]_vars

\* the monitor was set up three times: the ten observers of the first two
\* invocations are disconnected, the five of the third connected
C20_Witness ==
  /\ ~destroyed
  /\ Len(created) = 3 * Len(EntryTypes)
  /\ \A i \in 1..(2 * Len(EntryTypes)) : ~created[i].connected
  /\ \A i \in (2 * Len(EntryTypes) + 1)..(3 * Len(EntryTypes)) : created[i].connected
  /\ Members(observers) = (2 * Len(EntryTypes) + 1)..(3 * Len(EntryTypes))

\* ------------------------------------------------------------ teardown
\* no observer object the collector has created is connected
AllDisconnected == \A i \in 1..Len(created) : ~created[i].connected

\* the step leaves the queues, the transports, the session and the
\* collector's view of the page as they are; the persisted timestamp is not
\* renewed
NoReaction ==
  /\ UNCHANGED <<events, inflight, delivered, failures, logged>>
  /\ UNCHANGED <<performanceMetrics, metricsInflight>>
  /\ UNCHANGED <<sessionId, uuidCount>>
  /\ localStorage'[KeyId] = localStorage[KeyId]
  /\ ParseDate(localStorage'[KeyTs]) <= ParseDate(localStorage[KeyTs])
  /\ UNCHANGED <<currentPath, browserInfo, created, observers>>

\* C21: teardown.  Once destroy() has returned both intervals are cleared, no
\* listener of the collector is registered and history.pushState and
\* history.replaceState are the functions of before the construction; at its
\* return every observer the collector created is disconnected; and from then
\* on no timer, click, visibilitychange, popstate, beforeunload or history
\* call makes the collector queue, send, sweep the session or follow a path.
C21_Teardown ==
  /\ [](destroyed =>
         /\ nextSessionFire = {}
         /\ nextBatchFire = {}
         /\ listeners \cap ListenerTypes = {}
         /\ historyPushState = Original
         /\ historyReplaceState = Original)
  /\ [][/\ (~destroyed /\ destroyed') => AllDisconnected'
        /\ destroyed => NoReaction
       ]_vars

\* a destroyed collector with an event still queued, on a page that has
\* navigated since: the path was not followed and no observer is connected
C21_Witness ==
  /\ destroyed
  /\ events # <<>>
  /\ Pathname(history) # currentPath
  /\ Len(created) > 0
  /\ AllDisconnected

\* ------------------------------------------------------------ failures
\* the ids of the events the collector holds: queued or in a suspended send
EventIdsHeld ==
  IdsOf(events) \cup UNION {IdsOf(inflight[i].body.events) : i \in 1..Len(inflight)}

\* the ids of the metrics the collector holds
MetricIdsHeld ==
  IdsOf(performanceMetrics)
    \cup UNION {IdsOf(metricsInflight[i].body.performanceMetrics) :
                  i \in 1..Len(metricsInflight)}

\* C22: transport failures never escape.  No handler ever ends in a throw or
\* a rejected promise: in every state every sendEvents call, whatever the
\* beacon does, and every settling of a suspended sendEvents or
\* sendPerformanceMetrics, whatever the fetch ends in, ends normally; a step
\* in which a transport fails logs one error and leaves every entry of the
\* failed batch held by the collector.
C22_FailuresContained ==
  /\ [](~escaped)
  /\ [](constructed =>
         /\ \A u \in BOOLEAN, c \in BeaconCases :
              ~sendEvents(config, events, sessionId, u, c[1], c[2]).escaped
         /\ \A i \in 1..Len(inflight), o \in FetchOutcomes :
              ~settleEvents(events, inflight[i].body, o).escaped
         /\ \A i \in 1..Len(metricsInflight), o \in FetchOutcomes :
              ~settleMetrics(performanceMetrics, metricsInflight[i].body, o).escaped)
  /\ [][failures' # failures =>
          /\ failures' = failures + 1
          /\ logged' = logged + 1
          /\ EventIdsHeld \subseteq EventIdsHeld'
          /\ MetricIdsHeld \subseteq MetricIdsHeld'
          /\ delivered' = delivered
          /\ deliveredMetrics' = deliveredMetrics
       ]_vars

\* an event send and a metric send have failed: both errors were logged, both
\* batches are back in their queues and nothing has escaped
C22_Witness ==
  /\ failures = 2
  /\ logged = 2
  /\ ~escaped
  /\ events # <<>>
  /\ performanceMetrics # <<>>
  /\ inflight = <<>>
  /\ metricsInflight = <<>>

\* ------------------------------------------------------------ empty sends
\* the step leaves the event queue and its transports alone
EventSideUnchanged == UNCHANGED <<events, inflight, delivered>>

\* the step leaves the metric queue and its transport alone
MetricSideUnchanged == UNCHANGED <<performanceMetrics, metricsInflight, deliveredMetrics>>

\* the step logs no error and counts no failure
NothingLogged == UNCHANGED <<failures, logged, escaped>>

\* C23: an empty-queue send is a no-op.  In every state whose event queue is
\* empty a sendEvents call, forced to the beacon or not and whatever the
\* beacon would do, starts no fetch, makes no beacon call, logs nothing and
\* leaves the queue empty, and likewise sendPerformanceMetrics on an empty
\* metric queue; so from such a state only a tracking call or the settling of
\* an earlier send changes that queue's side of the collector, and but for a
\* settling no step from an empty event queue logs an error.
C23_EmptySendNoOp ==
  /\ []((constructed /\ events = <<>>) =>
         \A u \in BOOLEAN, c \in BeaconCases :
           LET r == sendEvents(config, events, sessionId, u, c[1], c[2])
           IN /\ r.started = <<>>
              /\ r.beaconed = <<>>
              /\ r.events = <<>>
              /\ r.got = {}
              /\ r.logged = 0
              /\ ~r.failed
              /\ ~r.escaped)
  /\ []((constructed /\ performanceMetrics = <<>>) =>
         LET r == sendPerformanceMetrics(config, performanceMetrics, sessionId)
         IN r.started = <<>> /\ r.performanceMetrics = <<>>)
  /\ [][/\ (constructed /\ events = <<>> /\ ~TracksEvent /\ ~SettlesEventFetch)
            => EventSideUnchanged
        /\ (constructed /\ performanceMetrics = <<>> /\ ~TracksMetric
              /\ ~SettlesMetricFetch)
            => MetricSideUnchanged
        /\ (constructed /\ events = <<>> /\ ~SettlesEventFetch /\ ~SettlesMetricFetch)
            => NothingLogged
       ]_vars

\* both queues are empty after deliveries, with nothing suspended: a send
\* call, forced or not, finds nothing to do
C23_Witness ==
  /\ constructed
  /\ events = <<>>
  /\ performanceMetrics = <<>>
  /\ inflight = <<>>
  /\ metricsInflight = <<>>
  /\ delivered # {}
  /\ deliveredMetrics # {}

\* ------------------------------------------------------------ sweep
\* the session after two sweeps in a row, with no time between them, from the
\* storage ls: the second sweep draws a fresh identifier if it needs one
SweptTwice(ls) ==
  LET once == checkSessionExpiration(config, ls, sessionId, generateUUID)
      fresh == IF once.ret = generateUUID THEN UUID(uuidCount + 2) ELSE generateUUID
  IN checkSessionExpiration(config, once.ls, once.ret, fresh)

\* C24: checkSessionExpiration is idempotent.  In every state of the
\* collector, and from whatever the storage holds (its own content or what
\* another page has left there), a second sweep with no time elapsed leaves
\* the session id and the storage the first sweep left; and a sweep changes
\* nothing when no timestamp is persisted or its age is below sessionTimeout.
C24_SweepIdempotent ==
  [](constructed =>
       \A ls \in Storages \cup {localStorage} :
         LET once == checkSessionExpiration(config, ls, sessionId, generateUUID)
         IN /\ SweptTwice(ls) = once
            /\ (\/ ls[KeyTs] = NULL
                \/ DateNow - ParseDate(ls[KeyTs]) < config.sessionTimeout)
                 => once = [ret |-> sessionId, ls |-> ls])

\* the page's own sweep has reset a session that had been reused from the
\* storage and has expired since, between two firings of the interval
C24_Witness ==
  /\ constructed
  /\ config.sessionId = NULL
  /\ uuidCount = 1
  /\ sessionId = UUID(1)
  /\ localStorage[KeyTs] = ToISOString(DateNow)
  /\ nextSessionFire = {DateNow + 1}
  /\ nextEventId = 1

\* ------------------------------------------------------------ identifier
\* C25: the anonymous identifier is stable.  A collector constructed on a
\* storage that holds a colorIdentifier takes that value; a persisted
\* identifier is never overwritten or removed, so one is generated and
\* persisted at most once per storage; and once the collector is constructed
\* its colorIdentifier is the persisted one and no operation changes it.
C25_IdentifierStable ==
  /\ [](constructed =>
         /\ colorIdentifier # NULL
         /\ localStorage[KeyColor] = colorIdentifier)
  /\ [][/\ localStorage[KeyColor] # NULL =>
              localStorage'[KeyColor] = localStorage[KeyColor]
        /\ (Constructs /\ localStorage[KeyColor] # NULL) =>
              colorIdentifier' = localStorage[KeyColor]
        /\ constructed => colorIdentifier' = colorIdentifier
       ]_vars

\* a collector that took the identifier of an earlier visit and kept it
\* through two session resets, a navigation and its teardown
C25_Witness ==
  /\ destroyed
  /\ colorIdentifier = StoredColor
  /\ localStorage[KeyColor] = StoredColor
  /\ uuidCount = 2
  /\ history.index > 1

\* ------------------------------------------------------------ clicks

\* the matching elements among element i and its ancestors
MatchingChain(doc, i) ==
  {j \in 1..Len(doc) : doc[j].matches /\ IsSelfOrAncestor(doc, j, i)}

\* the nearest of them: every other one is one of its ancestors
Nearest(doc, i) ==
  CHOOSE t \in MatchingChain(doc, i) :
    \A k \in MatchingChain(doc, i) : IsSelfOrAncestor(doc, k, t)

\* the number of matching elements of the document
Matched(doc) == Cardinality({j \in 1..Len(doc) : doc[j].matches})

\* in every document, a click on an element whose nearest matching
\* self-or-ancestor carries an item id reads that item id and the position 1
\* plus the number of matching elements before it in document order
PositionLaw ==
  \A doc \in Documents :
    \A i \in 1..Len(doc) :
      (MatchingChain(doc, i) # {} /\ doc[Nearest(doc, i)].itemId # NULL) =>
        LET t == Nearest(doc, i)
            position == 1 + Cardinality({j \in 1..(t - 1) : doc[j].matches})
        IN /\ \E r \in readTarget(doc, i) :
                /\ readTarget(doc, i) = {r}
                /\ r.itemId = doc[t].itemId
                /\ r.position = position
           /\ 1 <= position
           /\ position <= Matched(doc)

\* C26: a click whose target has a nearest self-or-ancestor matching the
\* selector with a non-empty item id queues exactly one click event, with that
\* item id and with position 1 plus the index of that element among the
\* matching elements in document order; so 1 <= position <= the number of
\* matching elements.
C26_ClickPosition ==
  /\ []PositionLaw
  /\ [][(Click /\ nextEventId' # nextEventId) =>
          \E reading \in TargetReadings :
            \E r \in reading :
              /\ r.position \in 1..MaxElements
              /\ QueuedWithBatchCheck(
                   ClickEvent(nextEventId,
                              [itemId |-> r.itemId, position |-> r.position,
                               searchRequestId |-> PushedEvent.searchRequestId],
                              sessionId))]_vars

\* a click on the third of three matching elements is in the queue
C26_Witness ==
  /\ Len(events) = 2
  /\ events[2].type = "click"
  /\ events[2].itemId = <<"item">>
  /\ events[2].position = 3

\* ------------------------------------------------------------ search request id

\* the event objects the collector holds, queued or in flight
EventsHeld ==
  {events[k] : k \in 1..Len(events)}
    \cup UNION {{inflight[i].body.events[k] : k \in 1..Len(inflight[i].body.events)} :
               i \in 1..Len(inflight)}

\* the event a listener call with result r has pushed
TrackedBy(r) ==
  IF r.started # <<>>
  THEN LET b == r.started[1].body.events IN b[Len(b)]
  ELSE r.events[Len(r.events)]

\* whatever the collector holds, a click that tracks now stamps its event
\* with the element's attribute when there is one and with
\* config.searchRequestId as it is now otherwise
Precedence ==
  constructed =>
    \A reading \in TargetReadings :
      \A r \in reading :
        TrackedBy(clickListener(config, events, nextEventId, reading, sessionId,
                                FALSE, "true")).searchRequestId
          = IF r.attribute # NULL THEN r.attribute ELSE config.searchRequestId

\* C27: a click event's searchRequestId is the element's attribute when it is
\* present and non-empty and config.searchRequestId at click time otherwise;
\* updateSearchRequestId sets the value for later clicks and leaves every
\* queued or in-flight event as it is; no other operation changes a field of
\* config after construction.
C27_SearchRequestIdPrecedence ==
  /\ []Precedence
  /\ [][/\ UpdateSearchRequestId =>
             /\ config'.searchRequestId \in PageSearchRequestIds
             /\ events' = events
             /\ inflight' = inflight
        /\ \A e \in EventsHeld' : (e.id \in EventIdsHeld) => e \in EventsHeld
        /\ (constructed /\ config' # config) =>
             /\ UpdateSearchRequestId
             /\ \A f \in DOMAIN config \ {"searchRequestId"} : config'[f] = config[f]]_vars

\* two clicks are queued, the first stamped with the configured value and the
\* second with its element's attribute, and the page has since set a third value
C27_Witness ==
  /\ Len(events) = 2
  /\ events[1].searchRequestId = <<"search", 2>>
  /\ events[2].searchRequestId = <<"search", 1>>
  /\ config.searchRequestId = <<"search", 3>>

\* ------------------------------------------------------------ layout shift sums

\* the sum of value over the entries without recent input, counted value by
\* value: v times the number of qualifying entries of value v, for v up to top
RECURSIVE QualifyingSum(_, _)
QualifyingSum(entries, top) ==
  IF top = 0 THEN 0
  ELSE top * Cardinality({n \in 1..Len(entries) :
                            ~entries[n].hadRecentInput /\ entries[n].value = top})
         + QualifyingSum(entries, top - 1)

\* whatever the queue holds, a callback of the layout-shift observer hands
\* over the queue with one more metric, of type CLS and of the qualifying sum
ClsLaw ==
  constructed =>
    \A entries \in LayoutShiftEntries :
      LET r == layoutShiftCallback(config, performanceMetrics, nextMetricId, entries,
                                   sessionId)
      IN /\ r.performanceMetrics = <<>>
         /\ Len(r.started) = 1
         /\ r.started[1].body.performanceMetrics
              = Append(performanceMetrics,
                       [id |-> nextMetricId, type |-> "CLS",
                        value |-> QualifyingSum(entries, MaxShift),
                        sessionId |-> sessionId])

\* the metrics of the fetch started last
LastMetricsBatch == metricsInflight[Len(metricsInflight)].body.performanceMetrics

\* C28: each invocation of the layout-shift callback emits exactly one CLS
\* metric, whose value is the sum of value over the entries of the batch with
\* hadRecentInput false; the other entries add nothing, and a metric of value
\* 0 is emitted when no entry qualifies.
C28_ClsAccumulation ==
  /\ []ClsLaw
  /\ [][LayoutShift =>
          /\ Len(metricsInflight') = Len(metricsInflight) + 1
          /\ Len(LastMetricsBatch') = Len(performanceMetrics) + 1
          /\ SubSeq(LastMetricsBatch', 1, Len(performanceMetrics)) = performanceMetrics
          /\ LastMetricsBatch'[Len(LastMetricsBatch')].type = "CLS"
          /\ LastMetricsBatch'[Len(LastMetricsBatch')].id = nextMetricId
          /\ LastMetricsBatch'[Len(LastMetricsBatch')].value \in 0..(MaxEntries * MaxShift)
          /\ nextMetricId' = nextMetricId + 1]_vars

\* one callback whose entries all had recent input and one whose entries
\* qualify have each emitted a metric
C28_Witness ==
  /\ Len(metricsInflight) = 2
  /\ metricsInflight[1].body.performanceMetrics[1].type = "CLS"
  /\ metricsInflight[1].body.performanceMetrics[1].value = 0
  /\ LastMetricsBatch[Len(LastMetricsBatch)].type = "CLS"
  /\ LastMetricsBatch[Len(LastMetricsBatch)].value = MaxShift + 1

\* ------------------------------------------------------------ failure outcomes

\* how often the entry e occurs in the queue q
Occurrences(q, e) == Cardinality({n \in 1..Len(q) : q[n] = e})

\* the queue q holds every entry of the batch twice over, and nothing else
Doubled(batch, q) ==
  /\ Len(q) = 2 * Len(batch)
  /\ \A n \in 1..Len(batch) : Occurrences(q, batch[n]) = 2 * Occurrences(batch, batch[n])

\* the failure outcomes of a send whose batch is the whole queue and during
\* which nothing arrives: of every event batch in flight, of every metric
\* batch in flight, and of the events now queued when they go to a beacon
OutcomesAsTested ==
  /\ \A i \in 1..Len(inflight) :
       LET b == inflight[i].body.events
       IN /\ Doubled(b, settleEvents(<<>>, inflight[i].body, "notok").events)
          /\ settleEvents(<<>>, inflight[i].body, "reject").events = b
  /\ \A i \in 1..Len(metricsInflight) :
       LET b == metricsInflight[i].body.performanceMetrics
       IN /\ Doubled(b, settleMetrics(<<>>, metricsInflight[i].body, "notok").performanceMetrics)
          /\ settleMetrics(<<>>, metricsInflight[i].body, "reject").performanceMetrics = b
  /\ events # <<>> =>
       Doubled(events, sendEvents(config, events, sessionId, TRUE, TRUE, "false").events)

SameSend(q) ==
  LET e == sendEvents(config, q, sessionId, FALSE, TRUE, "true")
      m == sendPerformanceMetrics(config, q, sessionId)
  IN /\ m.performanceMetrics = e.events
     /\ e.beaconed = <<>>
     /\ Len(m.started) = Len(e.started)
     /\ Len(m.started) = IF q = <<>> THEN 0 ELSE 1
     /\ \A n \in 1..Len(m.started) :
          /\ m.started[n].body.performanceMetrics = e.started[n].body.events
          /\ m.started[n].body.performanceMetrics = q
          /\ m.started[n].method = e.started[n].method

\* resumed with the same outcome for the same batch next to the same live
\* queue q, both leave the same queue and log the same number of errors
SameSettle(q, batch) ==
  \A outcome \in FetchOutcomes :
    LET e == settleEvents(q, EventsPayload(batch, sessionId), outcome)
        m == settleMetrics(q, MetricsPayload(batch, sessionId), outcome)
    IN /\ m.performanceMetrics = e.events
       /\ m.logged = e.logged
       /\ m.escaped = e.escaped

\* C30: for the same appends, send attempts and transport outcomes (ok,
\* non-OK, thrown), sendPerformanceMetrics transforms its queue exactly as
\* sendEvents(false) transforms its own: the same swap, one transport attempt
\* per call, the same requeue on failure.  Stated for every queue and every
\* batch in flight the collector reaches, each handed to both functions.
C30_SameContract ==
  /\ SameSend(events)
  /\ SameSend(performanceMetrics)
  /\ \A i \in 1..Len(inflight) :
       /\ SameSettle(events, inflight[i].body.events)
       /\ SameSettle(performanceMetrics, inflight[i].body.events)
  /\ \A i \in 1..Len(metricsInflight) :
       /\ SameSettle(events, metricsInflight[i].body.performanceMetrics)
       /\ SameSettle(performanceMetrics, metricsInflight[i].body.performanceMetrics)

\* both queues hold entries that failed and came back, next to a batch of
\* each kind in flight
C30_Witness ==
  /\ Len(events) >= 2
  /\ Len(performanceMetrics) >= 2
  /\ inflight # <<>>
  /\ metricsInflight # <<>>
  /\ failures = 2

\* ------------------------------------------------------------ navigation metric

\* the setup that turns the collector c into after has tracked one NAVIGATION
\* metric and handed the queue with it to one fetch
EmitsNavigation(c, after) ==
  /\ after.nextMetricId = c.nextMetricId + 1
  /\ after.performanceMetrics = <<>>
  /\ Len(after.started) = 1
  /\ after.started[1].body.performanceMetrics
       = Append(c.performanceMetrics, Metric(c.nextMetricId, "NAVIGATION", c.sessionId))

\* it has tracked and sent nothing
EmitsNone(c, after) ==
  /\ after.nextMetricId = c.nextMetricId
  /\ after.performanceMetrics = c.performanceMetrics
  /\ after.started = <<>>

\* the histories a history call or a popstate can leave
HistoriesNext ==
  {history}
    \cup {originalPushState(history, args) : args \in HistoryArgs}
    \cup {originalReplaceState(history, args) : args \in HistoryArgs}

\* what a monitor setup and a path change emit when reads(po, entry) says
\* whether the setup reads an entry
EmissionLaw(reads(_, _)) ==
  \A hasPerformanceObserver \in BOOLEAN, navigationEntry \in BOOLEAN :
    /\ config.performanceMetricsEnabled =>
         LET c == setupPerformanceObserver(config, Self, hasPerformanceObserver,
                                           navigationEntry)
         IN IF reads(hasPerformanceObserver, navigationEntry)
            THEN EmitsNavigation(Self, c)
            ELSE EmitsNone(Self, c)
    /\ constructed =>
         \A h \in HistoriesNext :
           LET c == handlePathChange(config, Self, h, hasPerformanceObserver,
                                     navigationEntry)
           IN IF /\ Pathname(h) # currentPath
                 /\ config.performanceMetricsEnabled
                 /\ reads(hasPerformanceObserver, navigationEntry)
              THEN EmitsNavigation(Self, c)
              ELSE EmitsNone(Self, c)

\* the steps that can run a monitor setup emit one NAVIGATION metric or
\* nothing, and nothing when metrics are disabled
EmissionSteps ==
  [][(nextMetricId' # nextMetricId \/ metricsInflight' # metricsInflight) =>
       /\ config.performanceMetricsEnabled
       /\ nextMetricId' = nextMetricId + 1
       /\ Len(metricsInflight') = Len(metricsInflight) + 1
       /\ LET b == metricsInflight'[Len(metricsInflight')].body.performanceMetrics
          IN /\ b[Len(b)].type = "NAVIGATION"
             /\ b[Len(b)].id = nextMetricId
       /\ Len(created') = Len(created) + Len(EntryTypes)
       /\ Construct \/ Pathname(history') # currentPath]_vars

\* C31 as claimed: each monitor setup, at construction and at every path
\* change while metrics are enabled, tracks and sends exactly one NAVIGATION
\* metric if a navigation timing entry exists; an unchanged path, disabled
\* metrics or a missing entry emit none.
C31_NavigationPerSetup ==
  /\ [](EmissionLaw(LAMBDA po, entry : entry))
  /\ EmissionSteps

\* C31 amended: the entry is read, and the metric emitted, only by a setup on
\* a page where PerformanceObserver exists; without it a setup emits nothing,
\* whether or not a navigation timing entry exists.
C31_Amended ==
  /\ [](EmissionLaw(LAMBDA po, entry : po /\ entry))
  /\ EmissionSteps

\* construction and one path change have each sent a NAVIGATION metric
C31_Witness ==
  /\ currentPath = "/search"
  /\ Len(metricsInflight) = 2
  /\ metricsInflight[1].body.performanceMetrics[1].type = "NAVIGATION"
  /\ metricsInflight[2].body.performanceMetrics[1].type = "NAVIGATION"
  /\ metricsInflight[2].body.performanceMetrics[1].id = 2

\* ------------------------------------------------------------ injected session

\* a session id was injected at construction
Injected == Truthy(config.sessionId)

\* C32: with an injected session id, collector.sessionId and the persisted id
\* are the injected id in every state after construction; resetSession,
\* trackConversion and the expiry sweep each derive the injected id again,
\* draw no new id, and change nothing of the stored session but the
\* timestamp, which they set to now.
C32_InjectedPermanent ==
  /\ []((constructed /\ Injected) =>
          /\ sessionId = config.sessionId
          /\ localStorage[KeyId] = config.sessionId
          /\ Truthy(localStorage[KeyTs]))
  /\ [][(constructed /\ Injected) =>
          /\ (ResetSession \/ TrackConversion) =>
               /\ sessionId' = config.sessionId
               /\ localStorage' = [localStorage EXCEPT ![KeyTs] = ToISOString(DateNow)]
               /\ uuidCount' = uuidCount
          /\ (SessionTimer \/ CheckSessionExpiration) =>
               /\ sessionId' = config.sessionId
               /\ \/ localStorage' = localStorage
                  \/ /\ DateNow - ParseDate(localStorage[KeyTs]) >= config.sessionTimeout
                     /\ localStorage'
                          = [localStorage EXCEPT ![KeyTs] = ToISOString(DateNow)]
               /\ uuidCount' = uuidCount]_vars

\* the collector was constructed with an injected id over the session an
\* earlier visit had stored and has tracked a conversion, one tick ago
C32_Witness ==
  /\ constructed
  /\ Injected
  /\ sessionId = InjectedId
  /\ localStorage[KeyId] = InjectedId
  /\ localStorage[KeyTs] = ToISOString(DateNow - 1)
  /\ localStorage[KeyColor] = StoredColor
  /\ events # <<>>
  /\ events[Len(events)].name = "conversion"

\* ------------------------------------------------------------ envelope

\* every entry of the batch carries the session id sid
AllStamped(batch, sid) == \A k \in 1..Len(batch) : batch[k].sessionId = sid

\* C33: in every transmitted events payload and metrics payload, the
\* sessionId of each contained event or metric equals the payload's top-level
\* sessionId, also when the session is reset between tracking and sending.
C33_EnvelopeAgrees ==
  /\ \A i \in 1..Len(inflight) :
       AllStamped(inflight[i].body.events, inflight[i].body.sessionId)
  /\ \A i \in 1..Len(metricsInflight) :
       AllStamped(metricsInflight[i].body.performanceMetrics,
                  metricsInflight[i].body.sessionId)

\* ------------------------------------------------------------ queue order

\* C34: in every reachable state the live event queue lists the events in
\* the order in which they were tracked: an event tracked earlier never sits
\* behind one tracked later, also after overlapping sends have failed.
C34_ArrivalOrder ==
  \A i, j \in 1..Len(events) : i < j => events[i].id <= events[j].id

\* ------------------------------------------------------------ metric delivery

\* C35: eventual delivery of metrics.  On a collector that is never
\* destroyed, whose timers keep firing and whose transport fails only
\* finitely often (at most MaxFailures times), every metric accepted by
\* trackPerformanceMetric is eventually delivered, whether or not another
\* metric is tracked after a failure.
C35_MetricsEventuallyDelivered ==
  \A i \in 1..MaxMetrics : (nextMetricId > i) ~> (i \in deliveredMetrics)

\* ------------------------------------------------------------ stale stamps

\* C36: no event or metric is stamped at tracking time with a sessionId whose
\* persisted timestamp is already sessionTimeout or more old: a step that
\* tracks on a collector whose sweep is armed does not happen while the
\* session in force has reached the timeout.
C36_NoStaleStamp ==
  [][(~destroyed /\ (nextEventId' # nextEventId \/ nextMetricId' # nextMetricId)) =>
       ~SessionExpired]_vars

\* ------------------------------------------------------------ agreement

\* C37: for one collector that is the only writer of the storage, after
\* construction and after every public operation and timer tick,
\* collector.sessionId equals the persisted session id, and a persisted
\* timestamp exists that is not later than now.
C37_MemoryAndStorageAgree ==
  constructed =>
    /\ Truthy(sessionId)
    /\ sessionId = localStorage[KeyId]
    /\ Truthy(localStorage[KeyTs])
    /\ ParseDate(localStorage[KeyTs]) <= DateNow

\* the session of an earlier visit was taken over at construction, has been
\* replaced twice since, and the collector is destroyed
C37_Witness ==
  /\ destroyed
  /\ uuidCount = 2
  /\ sessionId = UUID(2)
  /\ localStorage[KeyId] = UUID(2)
  /\ localStorage[KeyTs] = ToISOString(DateNow - 1)
  /\ localStorage[KeyColor] = StoredColor

\* ------------------------------------------------------------ several collectors

\* the collectors in the phase ph
InPhase(ph) == {k \in 1..MaxCollectors : collectors[k].phase = ph}

\* C38: when two or more collectors were constructed on the page and all
\* are destroyed, in any order, history.pushState and history.replaceState
\* are the functions in place before the first construction, and no history
\* call runs handlePathChange of a destroyed collector.
C38_HistoryRestored ==
  /\ []((Cardinality(InPhase("destroyed")) >= 2 /\ InPhase("constructed") = {}
            /\ InPhase("failed") = {}) =>
          /\ pageHistory.pushState = NativeFunction
          /\ pageHistory.replaceState = NativeFunction)
  /\ [][HistoryCall => reacted' \cap InPhase("destroyed") = {}]_vars

\* ------------------------------------------------------------ failed construction

\* C39: when the constructor throws, at a storage access or at the creation
\* of a performance observer, no document or window listener, history patch,
\* connected observer or interval installed by that constructor remains
\* active.
C39_FailedConstructionClean ==
  /\ [](\A k \in InPhase("failed") :
          /\ collectors[k].listeners = {}
          /\ collectors[k].connected = {}
          /\ ~collectors[k].intervals
          /\ pageHistory.pushState # WrapperOf(k)
          /\ pageHistory.replaceState # WrapperOf(k))
  /\ [][HistoryCall => reacted' \cap InPhase("failed") = {}]_vars

\* ------------------------------------------------------------ destroy and data

\* the step settles the fetch at position i of the event fetches in flight
SettlesFetchAt(i) ==
  /\ SettleEvents
  /\ i \in 1..Len(inflight)
  /\ inflight' = RemoveAt(inflight, i)

\* C40: destroy() issues no transport call and leaves the event queue, the
\* metric queue, sessionId, colorIdentifier and the storage unchanged, so the
\* events queued are not flushed; a send in flight at destroy time still
\* completes, and its failure still puts its batch back in front of the queue.
C40_DestroyKeepsData ==
  [][/\ Destroy =>
          UNCHANGED <<events, performanceMetrics, inflight, metricsInflight, delivered,
                      deliveredMetrics, failures, logged, sessionId, colorIdentifier,
                      localStorage>>
     /\ (destroyed /\ SettleEvents) =>
          \E i \in 1..Len(inflight) :
            /\ SettlesFetchAt(i)
            /\ IF failures' > failures
               THEN /\ IsPrefix(inflight[i].body.events, events')
                    /\ IsSuffix(events, events')
               ELSE /\ events' = events
                    /\ IdsOf(inflight[i].body.events) \subseteq delivered'
    ]_vars

\* after destroy: an event still queued, a metric batch still in flight, and
\* an event batch that failed back in the queue
C40_Witness ==
  /\ destroyed
  /\ IdSeq(events) = <<1, 2, 3>>
  /\ failures = 1
  /\ inflight = <<>>
  /\ metricsInflight # <<>>
  /\ delivered = {}
====
